---- MODULE Spec2Model ----
(***************************************************************************)
(* A model of the DTCG validator of brand-json-validator                   *)
(* (class DTCGValidator): validate, getFixableIssues, applyApprovedFixes   *)
(* and autoFix, as operations on one validator instance and one caller     *)
(* document.                                                               *)
(*                                                                         *)
(* JSON values are tagged records.  A string is a sequence of tokens, so   *)
(* that prefix tests, regular expressions, hyphen joins and path splits    *)
(* are computed, not assumed: a value string is the sequence of its        *)
(* characters; a key or a type name is one indivisible token (with "$",    *)
(* "-" and "." as tokens of their own).  An object is the sequence of its  *)
(* <<key, value>> entries in insertion order; an array is an object whose  *)
(* keys are its indices.  A number n is held as n * 1000.                  *)
(***************************************************************************)
EXTENDS Integers, Sequences, FiniteSets, TLC

----------------------------------------------------------------------------
(* JSON values *)

Undef == [t |-> "undef"]
Null == [t |-> "null"]
NaNV == [t |-> "nan"]
B(b) == [t |-> "bool", b |-> b]
N(m) == [t |-> "num", m |-> m]
\* a number below one thousandth, which the thousandths of N cannot hold:
\* d * 10^-e, for an integer d that does not end in 0
Tiny(d, e) == [t |-> "num", m |-> 0, d |-> d, e |-> e]
IsTiny(v) == v.t = "num" /\ "d" \in DOMAIN v
S(s) == [t |-> "str", s |-> s]
O(kv) == [t |-> "obj", kv |-> kv]
A(kv) == [t |-> "arr", kv |-> kv]
\* a reference to the object at path p of the caller's document (used only
\* while applyApprovedFixes runs, for objects the fixes share with it)
Ref(p) == [t |-> "ref", p |-> p]

\* typeof v === 'object' && v !== null
IsObj(v) == v.t \in {"obj", "arr"}
\* typeof v === 'object'
TypeofObject(v) == v.t \in {"obj", "arr", "null"}
\* typeof v === 'number'
TypeofNumber(v) == v.t \in {"num", "nan"}
TypeofString(v) == v.t = "str"

\* JavaScript truthiness
Truthy(v) ==
  CASE v.t \in {"undef", "null", "nan"} -> FALSE
    [] v.t = "bool" -> v.b
    [] v.t = "num" -> v.m # 0 \/ "d" \in DOMAIN v
    [] v.t = "str" -> Len(v.s) > 0
    [] OTHER -> TRUE

\* k in o, for an object o
Has(o, k) == \E i \in 1..Len(o.kv) : o.kv[i][1] = k

IndexOfKey(o, k) == CHOOSE i \in 1..Len(o.kv) : o.kv[i][1] = k

\* o[k]: undefined for a missing key and for a primitive o
Get(o, k) ==
  IF IsObj(o) /\ Has(o, k) THEN o.kv[IndexOfKey(o, k)][2] ELSE Undef

\* o[k] = v: an existing key keeps its place, a new key is appended
Put(o, k, v) ==
  IF Has(o, k)
  THEN [o EXCEPT !.kv[IndexOfKey(o, k)] = <<k, v>>]
  ELSE [o EXCEPT !.kv = Append(@, <<k, v>>)]

RECURSIVE DropKey(_, _)
DropKey(kv, k) ==
  IF kv = <<>> THEN <<>>
  ELSE IF Head(kv)[1] = k THEN DropKey(Tail(kv), k)
  ELSE <<Head(kv)>> \o DropKey(Tail(kv), k)

\* delete o[k]
Del(o, k) == [o EXCEPT !.kv = DropKey(@, k)]

\* key.startsWith('$')
StartsWithDollar(k) == Len(k) > 0 /\ k[1] = "$"

RECURSIVE NonDollarKeysOf(_)
NonDollarKeysOf(kv) ==
  IF kv = <<>> THEN <<>>
  ELSE IF StartsWithDollar(Head(kv)[1]) THEN NonDollarKeysOf(Tail(kv))
  ELSE <<Head(kv)[1]>> \o NonDollarKeysOf(Tail(kv))

\* Object.keys(o), the `$` keys among them
allKeys(o) == [i \in 1..Len(o.kv) |-> o.kv[i][1]]

\* Object.keys(o).filter(k => !k.startsWith('$'))
NonDollarKeys(o) == NonDollarKeysOf(o.kv)

\* the keys the source names
kValue == <<"value">>
kDValue == <<"$", "value">>
kType == <<"type">>
kDType == <<"$", "type">>
kDSchema == <<"$", "schema">>
kDescription == <<"description">>
kDDescription == <<"$", "description">>
kBrand == <<"brand">>
kName == <<"name">>

\* structural equality of two JSON values: key order does not count
RECURSIVE StructEq(_, _)
StructEq(a, b) ==
  IF a.t # b.t THEN FALSE
  ELSE IF IsObj(a)
  THEN /\ Len(a.kv) = Len(b.kv)
       /\ \A i \in 1..Len(a.kv) :
            /\ Has(b, a.kv[i][1])
            /\ StructEq(a.kv[i][2], Get(b, a.kv[i][1]))
  ELSE a = b

----------------------------------------------------------------------------
(* Strings: the tests and conversions the source makes with regular        *)
(* expressions, startsWith, parseFloat and parseInt                        *)

Digits == {"0", "1", "2", "3", "4", "5", "6", "7", "8", "9"}
HexDigits == Digits \cup {"a", "b", "c", "d", "e", "f", "A", "B", "C", "D", "E", "F"}
\* the unit alternatives of the source's regular expressions, in characters
DimensionUnits ==
  {<<"p", "x">>, <<"r", "e", "m">>, <<"e", "m">>, <<"%">>, <<"v", "h">>, <<"v", "w">>,
   <<"v", "m", "i", "n">>, <<"v", "m", "a", "x">>, <<"p", "t">>, <<"c", "m">>,
   <<"m", "m">>, <<"i", "n">>, <<"p", "c">>, <<"c", "h">>}
RadiusUnits == {<<"p", "x">>, <<"r", "e", "m">>, <<"e", "m">>, <<"%">>}
DurationUnits == {<<"m", "s">>, <<"s">>}

\* the rest of s from index j is one of units
EndsWithUnitAt(s, j, units) == j <= Len(s) /\ SubSeq(s, j, Len(s)) \in units

DigitValue(c) ==
  CASE c = "0" -> 0 [] c = "1" -> 1 [] c = "2" -> 2 [] c = "3" -> 3
    [] c = "4" -> 4 [] c = "5" -> 5 [] c = "6" -> 6 [] c = "7" -> 7
    [] c = "8" -> 8 [] c = "9" -> 9

\* the first index at or after i whose token is not in set (Len(s)+1 if none)
RECURSIVE RunEnd(_, _, _)
RunEnd(s, i, set) ==
  IF i <= Len(s) /\ s[i] \in set THEN RunEnd(s, i + 1, set) ELSE i

\* \d+(\.\d+)? matched at i: the index after the match, 0 when it fails
NumberEnd(s, i) ==
  LET j == RunEnd(s, i, Digits)
  IN  IF j = i THEN 0
      ELSE IF j <= Len(s) /\ s[j] = "." /\ RunEnd(s, j + 1, Digits) > j + 1
           THEN RunEnd(s, j + 1, Digits)
           ELSE j

\* /^\d+(\.\d+)?(u1|u2|...)$/ for the units in set
MatchesNumberUnit(s, units) ==
  LET j == NumberEnd(s, 1)
  IN  j # 0 /\ EndsWithUnitAt(s, j, units)

\* a duration test that would take no sign
MatchesUnsignedDuration(s) == MatchesNumberUnit(s, DurationUnits)

\* /^[-]?\d+(\.\d+)?(ms|s)$/
MatchesSignedDuration(s) ==
  LET start == IF Len(s) > 0 /\ s[1] = "-" THEN 2 ELSE 1
      j == NumberEnd(s, start)
  IN  j # 0 /\ EndsWithUnitAt(s, j, DurationUnits)

\* /^\d+(\.\d+)?$/
MatchesBareNumber(s) == NumberEnd(s, 1) # 0 /\ NumberEnd(s, 1) = Len(s) + 1

\* /^-?[\d.]+(u1|u2|...)$/ (sign allowed) and /^[\d.]+(u1|...)$/ (no sign)
MatchesLooseUnit(s, units, sign) ==
  LET start == IF sign /\ Len(s) > 0 /\ s[1] = "-" THEN 2 ELSE 1
      j == RunEnd(s, start, Digits \cup {"."})
  IN  j > start /\ EndsWithUnitAt(s, j, units)

\* /^-?[\d.]+$/
MatchesLooseNumber(s) ==
  LET start == IF Len(s) > 0 /\ s[1] = "-" THEN 2 ELSE 1
      j == RunEnd(s, start, Digits \cup {"."})
  IN  j > start /\ j = Len(s) + 1

\* the digits s[i..j-1] as an integer
RECURSIVE DigitsToInt(_, _, _, _)
DigitsToInt(s, i, j, acc) ==
  IF i >= j THEN acc ELSE DigitsToInt(s, i + 1, j, acc * 10 + DigitValue(s[i]))

\* the fraction digits s[i..j-1] in thousandths (digits past the third are
\* cut, except for the numbers below one thousandth, which parseFloat keeps
\* whole as a Tiny)
FractionMilli(s, i, j) ==
  LET n == j - i
  IN  IF n = 0 THEN 0
      ELSE IF n = 1 THEN DigitsToInt(s, i, j, 0) * 100
      ELSE IF n = 2 THEN DigitsToInt(s, i, j, 0) * 10
      ELSE DigitsToInt(s, i, i + 3, 0)

\* the index after the last digit of s[i..j-1] that is not "0" (i when all are)
RECURSIVE SignificantEnd(_, _, _)
SignificantEnd(s, i, j) ==
  IF j > i /\ s[j - 1] = "0" THEN SignificantEnd(s, i, j - 1) ELSE j

\* parseFloat of the tokens from index i: an optional sign, digits, an
\* optional point and digits, and whatever follows ignored; NaN when no
\* digit is found
parseFloat(s, i) ==
  LET neg == i <= Len(s) /\ s[i] = "-"
      a == IF neg THEN i + 1 ELSE i
      b == RunEnd(s, a, Digits)
      hasPoint == b <= Len(s) /\ s[b] = "."
      c == IF hasPoint THEN RunEnd(s, b + 1, Digits) ELSE b
      digits == (b - a) + (IF hasPoint THEN c - (b + 1) ELSE 0)
      mag == DigitsToInt(s, a, b, 0) * 1000
             + (IF hasPoint THEN FractionMilli(s, b + 1, c) ELSE 0)
      z == IF hasPoint THEN SignificantEnd(s, b + 1, c) ELSE b + 1
      d == DigitsToInt(s, b + 1, z, 0)
  IN  IF digits = 0 THEN NaNV
      ELSE IF mag = 0 /\ z > b + 4 THEN Tiny(IF neg THEN 0 - d ELSE d, z - (b + 1))
      ELSE N(IF neg THEN 0 - mag ELSE mag)

----------------------------------------------------------------------------
(* Token types and type inference *)

T(name) == S(<<name>>)

DTCG_GROUPS ==
  {kDSchema, <<"$", "id">>, kDDescription, <<"$", "extensions">>, kDType}

VALID_TOKEN_TYPES ==
  {"color", "dimension", "number", "opacity", "fontFamily", "fontSize",
   "fontWeight", "lineHeight", "letterSpacing", "paragraphSpacing", "textCase",
   "textDecoration", "duration", "cubicBezier", "transition", "shadow",
   "gradient", "border", "borderRadius", "strokeStyle", "typography", "asset"}

\* the $schema value the validator expects, as one token
DTCG_SCHEMA_URL == S(<<"https://www.designtokens.org/tr/2025.10/format/">>)

\* a vocabulary test that would let every type pass
acceptAnyType(v) == TRUE

\* VALID_TOKEN_TYPES.includes(v)
IsValidTokenType(v) == v.t = "str" /\ Len(v.s) = 1 /\ v.s[1] \in VALID_TOKEN_TYPES

\* inferTokenType(value): a type name, or null
inferTokenType(value) ==
  IF value.t = "str"
  THEN LET s == value.s
       IN  IF (Len(s) > 0 /\ s[1] = "#") \/ (Len(s) >= 3 /\ SubSeq(s, 1, 3) = <<"r", "g", "b">>)
           THEN T("color")
           ELSE IF MatchesNumberUnit(s, DimensionUnits) THEN T("dimension")
           ELSE IF MatchesSignedDuration(s) THEN T("duration")
           ELSE IF MatchesBareNumber(s)
                THEN (IF parseFloat(s, 1).m <= 1000 THEN T("opacity") ELSE T("number"))
           ELSE Null
  ELSE IF value.t = "num" THEN (IF value.m <= 1000 THEN T("opacity") ELSE T("number"))
  ELSE IF value.t = "nan" THEN T("number")
  ELSE Null

----------------------------------------------------------------------------
(* Diagnostics and the instance's three lists.  A path is the string the   *)
(* source builds, as tokens: `$.colors.brand` is <<"$", ".", "colors",     *)
(* ".", "brand">>.  A message is its fixed text, with the interpolated     *)
(* value in arg.  st.threw records a TypeError leaving the call.           *)

Dot(a, b) == a \o <<".">> \o b
GroupPath(groupName, rest) == Dot(Dot(<<"$">>, groupName), rest)

Diag(path, message, arg, severity) ==
  [path |-> path, message |-> message, arg |-> arg, severity |-> severity]

EmptyLists == [errors |-> <<>>, warnings |-> <<>>, structureIssues |-> <<>>, threw |-> FALSE]

pushError(st, path, message, arg) ==
  [st EXCEPT !.errors = Append(@, Diag(path, message, arg, "error"))]

pushWarning(st, path, message, arg) ==
  [st EXCEPT !.warnings = Append(@, Diag(path, message, arg, "warning"))]

Throw(st) == [st EXCEPT !.threw = TRUE]

----------------------------------------------------------------------------
(* Per-type value validators *)

\* /^#[0-9a-fA-F]{3}([0-9a-fA-F]{3})?([0-9a-fA-F]{3})?$/
MatchesHexColor(s) ==
  /\ Len(s) > 0 /\ s[1] = "#"
  /\ Len(s) - 1 \in {3, 6, 9}
  /\ \A i \in 2..Len(s) : s[i] \in HexDigits

validateColorValue(st, groupName, tokenName, value) ==
  IF IsObj(value)
  THEN IF ~Truthy(Get(value, <<"colorSpace">>)) \/ ~Truthy(Get(value, <<"channels">>))
       THEN pushError(st, Dot(GroupPath(groupName, tokenName), kDValue),
                      "Invalid DTCG color object", Undef)
       ELSE st
  ELSE IF ~TypeofString(value)
  THEN pushError(st, Dot(GroupPath(groupName, tokenName), kValue),
                 "Color value must be a string", Undef)
  ELSE IF Len(value.s) > 0 /\ value.s[1] = "#" /\ ~MatchesHexColor(value.s)
  THEN pushError(st, Dot(GroupPath(groupName, tokenName), kValue),
                 "Invalid hex color format", Undef)
  ELSE st

validateDimensionValue(st, groupName, tokenName, value) ==
  IF IsObj(value)
  THEN IF Get(value, kValue) = Undef \/ Get(value, <<"unit">>) = Undef
       THEN pushError(st, Dot(GroupPath(groupName, tokenName), kDValue),
                      "Invalid DTCG dimension object", Undef)
       ELSE st
  ELSE IF ~TypeofString(value)
  THEN pushError(st, Dot(GroupPath(groupName, tokenName), kValue),
                 "Dimension value must be a string", Undef)
  ELSE IF ~MatchesNumberUnit(value.s, DimensionUnits)
  THEN pushWarning(st, Dot(GroupPath(groupName, tokenName), kValue),
                   "Unusual dimension format", Undef)
  ELSE st

validateFontFamilyValue(st, groupName, tokenName, value) ==
  IF ~TypeofString(value)
  THEN pushError(st, Dot(GroupPath(groupName, tokenName), kValue),
                 "Font family must be a string or array of strings", Undef)
  ELSE st

validateNumberValue(st, groupName, tokenName, value) ==
  IF ~TypeofNumber(value)
  THEN pushError(st, Dot(GroupPath(groupName, tokenName), kDValue),
                 "Number token must have a numeric $value", Undef)
  ELSE st

validateOpacityValue(st, groupName, tokenName, value) ==
  IF ~TypeofNumber(value) \/ (value.t = "num" /\ (value.m < 0 \/ value.m > 1000))
  THEN pushError(st, Dot(GroupPath(groupName, tokenName), kDValue),
                 "Opacity must be a number between 0 and 1", Undef)
  ELSE st

validateDurationValue(st, groupName, tokenName, value) ==
  LET isValid == \/ TypeofNumber(value)
                 \/ (TypeofString(value) /\ MatchesLooseUnit(value.s, DurationUnits, TRUE))
  IN  IF ~isValid
      THEN pushError(st, Dot(GroupPath(groupName, tokenName), kDValue),
                     "Duration must be number (ms) or string ending with ms/s", Undef)
      ELSE st

validateBorderRadiusValue(st, groupName, tokenName, value) ==
  LET check(v) == \/ TypeofNumber(v)
                  \/ (TypeofString(v) /\ MatchesLooseUnit(v.s, RadiusUnits, FALSE))
  IN  IF ~(check(value) \/ (IsObj(value) /\ check(Get(value, kValue))))
      THEN pushError(st, Dot(GroupPath(groupName, tokenName), kDValue),
                     "Border radius must be a dimension (number or string with unit)", Undef)
      ELSE st

validateTextCaseValue(st, groupName, tokenName, value) ==
  IF ~TypeofString(value)
     \/ value \notin {T("none"), T("uppercase"), T("lowercase"), T("capitalize")}
  THEN pushError(st, Dot(GroupPath(groupName, tokenName), kDValue),
                 "textCase must be one of", Undef)
  ELSE st

validateTextDecorationValue(st, groupName, tokenName, value) ==
  IF ~TypeofString(value)
     \/ value \notin {T("none"), T("underline"), T("line-through"), T("overline")}
  THEN pushError(st, Dot(GroupPath(groupName, tokenName), kDValue),
                 "textDecoration must be one of", Undef)
  ELSE st

\* for (const r of required) if (!(r in value)) push an error at base.r
RECURSIVE pushMissing(_, _, _, _, _)
pushMissing(st, value, required, base, message) ==
  IF required = <<>> THEN st
  ELSE LET r == Head(required)
           st1 == IF ~Has(value, r)
                  THEN pushError(st, Dot(base, r), message, S(r))
                  ELSE st
       IN  pushMissing(st1, value, Tail(required), base, message)

validateTypographyValue(st, groupName, tokenName, value) ==
  IF ~IsObj(value)
  THEN pushError(st, Dot(GroupPath(groupName, tokenName), kDValue),
                 "Typography must be an object", Undef)
  ELSE LET base == Dot(GroupPath(groupName, tokenName), kDValue)
           st1 == pushMissing(st, value,
                    <<<<"fontFamily">>, <<"fontSize">>, <<"fontWeight">>, <<"lineHeight">>>>,
                    base, "Typography missing")
           st2 == IF Has(value, <<"letterSpacing">>)
                  THEN validateDimensionValue(st1, groupName,
                         Dot(tokenName, <<"letterSpacing">>), Get(value, <<"letterSpacing">>))
                  ELSE st1
           st3 == IF Has(value, <<"paragraphSpacing">>)
                  THEN validateDimensionValue(st2, groupName,
                         Dot(tokenName, <<"paragraphSpacing">>), Get(value, <<"paragraphSpacing">>))
                  ELSE st2
           st4 == IF Has(value, <<"textCase">>)
                  THEN validateTextCaseValue(st3, groupName,
                         Dot(tokenName, <<"textCase">>), Get(value, <<"textCase">>))
                  ELSE st3
       IN  IF Has(value, <<"textDecoration">>)
           THEN validateTextDecorationValue(st4, groupName,
                  Dot(tokenName, <<"textDecoration">>), Get(value, <<"textDecoration">>))
           ELSE st4

\* for (const [idx, shadow] of shadows.entries()) ...
RECURSIVE validateShadowEntries(_, _, _, _, _)
validateShadowEntries(st, groupName, tokenName, shadows, i) ==
  IF i > Len(shadows) THEN st
  ELSE LET idx == shadows[i][1]
           shadow == shadows[i][2]
           base == Dot(GroupPath(groupName, tokenName), kDValue) \o <<"[">> \o idx \o <<"]">>
           st1 == IF ~IsObj(shadow)
                  THEN pushError(st, base, "Shadow must be an object", Undef)
                  ELSE pushMissing(st, shadow,
                         <<<<"color">>, <<"offsetX">>, <<"offsetY">>, <<"blur">>>>,
                         base, "Shadow missing field")
       IN  validateShadowEntries(st1, groupName, tokenName, shadows, i + 1)

validateShadowValue(st, groupName, tokenName, value) ==
  LET shadows == IF value.t = "arr" THEN value.kv ELSE <<<<<<"0">>, value>>>>
  IN  validateShadowEntries(st, groupName, tokenName, shadows, 1)

validateGradientValue(st, groupName, tokenName, value) ==
  IF ~IsObj(value)
  THEN pushError(st, Dot(GroupPath(groupName, tokenName), kDValue),
                 "Gradient must be an object", Undef)
  ELSE LET stops == Get(value, <<"stops">>)
       IN  IF ~Truthy(stops) \/ stops.t # "arr" \/ Len(stops.kv) = 0
           THEN pushError(st, Dot(Dot(GroupPath(groupName, tokenName), kDValue), <<"stops">>),
                          "Gradient requires stops", Undef)
           ELSE st

validateBorderValue(st, groupName, tokenName, value) ==
  IF ~IsObj(value)
  THEN pushError(st, Dot(GroupPath(groupName, tokenName), kDValue),
                 "Border must be an object", Undef)
  ELSE pushMissing(st, value, <<<<"color">>, <<"width">>, <<"style">>>>,
                   Dot(GroupPath(groupName, tokenName), kDValue), "Border missing")

validateStrokeStyleValue(st, groupName, tokenName, value) ==
  IF ~IsObj(value)
  THEN pushError(st, Dot(GroupPath(groupName, tokenName), kDValue),
                 "Stroke style must be an object", Undef)
  ELSE st

validateTransitionValue(st, groupName, tokenName, value) ==
  IF ~IsObj(value)
  THEN pushError(st, Dot(GroupPath(groupName, tokenName), kDValue),
                 "Transition must be an object", Undef)
  ELSE LET base == Dot(GroupPath(groupName, tokenName), kDValue)
           st1 == IF ~Truthy(Get(value, <<"duration">>))
                  THEN pushError(st, Dot(base, <<"duration">>),
                                 "Transition missing duration", Undef)
                  ELSE st
           tf == Get(value, <<"timingFunction">>)
       IN  IF Truthy(tf) /\ Get(tf, kDType) # T("cubicBezier")
           THEN pushWarning(st1, Dot(base, <<"timingFunction">>),
                            "timingFunction should be a cubicBezier token", Undef)
           ELSE st1

validateCubicBezierValue(st, groupName, tokenName, value) ==
  LET arr == IF value.t = "arr" THEN value ELSE Get(value, kDValue)
  IN  IF arr.t # "arr" \/ Len(arr.kv) # 4
         \/ (\E i \in 1..Len(arr.kv) : ~TypeofNumber(arr.kv[i][2]))
      THEN pushError(st, Dot(GroupPath(groupName, tokenName), kDValue),
                     "cubicBezier must be an array of four numbers", Undef)
      ELSE st

\* a || b
OrElse(a, b) == IF Truthy(a) THEN a ELSE b

validateTokenValue(st, groupName, tokenName, token) ==
  LET type == Get(token, kDType)
      value == OrElse(Get(token, kDValue), Get(token, kValue))
  IN  CASE type = T("color") -> validateColorValue(st, groupName, tokenName, value)
        [] type = T("dimension") -> validateDimensionValue(st, groupName, tokenName, value)
        [] type = T("number") -> validateNumberValue(st, groupName, tokenName, value)
        [] type = T("opacity") -> validateOpacityValue(st, groupName, tokenName, value)
        [] type = T("fontFamily") -> validateFontFamilyValue(st, groupName, tokenName, value)
        [] type \in {T("fontSize"), T("fontWeight"), T("lineHeight"),
                     T("letterSpacing"), T("paragraphSpacing")} ->
             validateDimensionValue(st, groupName, tokenName, value)
        [] type = T("duration") -> validateDurationValue(st, groupName, tokenName, value)
        [] type = T("borderRadius") -> validateBorderRadiusValue(st, groupName, tokenName, value)
        [] type = T("textCase") -> validateTextCaseValue(st, groupName, tokenName, value)
        [] type = T("textDecoration") ->
             validateTextDecorationValue(st, groupName, tokenName, value)
        [] type = T("typography") -> validateTypographyValue(st, groupName, tokenName, value)
        [] type = T("shadow") -> validateShadowValue(st, groupName, tokenName, value)
        [] type = T("gradient") -> validateGradientValue(st, groupName, tokenName, value)
        [] type = T("border") -> validateBorderValue(st, groupName, tokenName, value)
        [] type = T("strokeStyle") -> validateStrokeStyleValue(st, groupName, tokenName, value)
        [] type = T("transition") -> validateTransitionValue(st, groupName, tokenName, value)
        [] type = T("cubicBezier") -> validateCubicBezierValue(st, groupName, tokenName, value)
        [] OTHER -> st

----------------------------------------------------------------------------
(* Structure analysis: nested-token detection and the flattened example *)

\* the keys of a dotted path string: 'a.b'.split('.')
RECURSIVE SplitDots(_, _)
SplitDots(s, cur) ==
  IF s = <<>> THEN <<cur>>
  ELSE IF Head(s) = "." THEN <<cur>> \o SplitDots(Tail(s), <<>>)
  ELSE SplitDots(Tail(s), Append(cur, Head(s)))

Split(s) == SplitDots(s, <<>>)
LastOf(seq) == seq[Len(seq)]

\* prefix ? `${prefix}-${key}` : key
HyphenJoin(prefix, key) == IF prefix # <<>> THEN prefix \o <<"-">> \o key ELSE key

\* { ...value }: a new object with value's own entries
Spread(value) == O(value.kv)

\* flattenRecursive(obj, prefix), from entry i on.  acc.flattened is the
\* `flattened` object being filled; acc.from records, for each flattened key,
\* the key path (from the root) of the token it was copied from: the copy
\* is shallow, so the token's object-valued entries are shared with it.
RECURSIVE flattenRecursive(_, _, _, _, _)
flattenRecursive(acc, obj, prefix, objPath, i) ==
  IF i > Len(obj.kv) THEN acc
  ELSE
    LET key == obj.kv[i][1]
        value == obj.kv[i][2]
        next(a) == flattenRecursive(a, obj, prefix, objPath, i + 1)
    IN  IF StartsWithDollar(key)
        THEN IF prefix = <<>>
             THEN next([acc EXCEPT !.flattened = Put(@, key, value)])
             ELSE next(acc)
        ELSE IF IsObj(value)
        THEN IF Has(value, kValue) \/ Has(value, kDType)
             THEN LET newKey == HyphenJoin(prefix, key)
                      copy == Spread(value)
                      inferredType == inferTokenType(Get(value, kValue))
                      typed == IF ~Truthy(Get(copy, kDType)) /\ Has(value, kValue)
                                  /\ Truthy(inferredType)
                               THEN Put(copy, kDType, inferredType)
                               ELSE copy
                  IN  next([flattened |-> Put(acc.flattened, newKey, typed),
                            from |-> Put(acc.from, newKey, Append(objPath, key))])
             ELSE next(flattenRecursive(acc, value, HyphenJoin(prefix, key),
                                        Append(objPath, key), 1))
        ELSE next(acc)

flattenAll(groupName, tokenPath, nestedObj) ==
  LET baseName == LastOf(Split(tokenPath))
  IN  flattenRecursive([flattened |-> O(<<>>), from |-> O(<<>>)],
                       nestedObj, baseName, <<groupName>> \o Split(tokenPath), 1)

generateFlattenedExample(groupName, tokenPath, nestedObj) ==
  flattenAll(groupName, tokenPath, nestedObj).flattened

\* nestedKeys.some(k => typeof token[k] === 'object' &&
\*                     ('value' in token[k] || '$type' in token[k])),
\* from index i on: "true", "false", or "throw" when `in` meets null
RECURSIVE someNestedToken(_, _, _)
someNestedToken(token, nestedKeys, i) ==
  IF i > Len(nestedKeys) THEN "false"
  ELSE LET child == Get(token, nestedKeys[i])
       IN  IF child.t = "null" THEN "throw"
           ELSE IF IsObj(child) /\ (Has(child, kValue) \/ Has(child, kDType)) THEN "true"
           ELSE someNestedToken(token, nestedKeys, i + 1)

StructureIssue(groupName, tokenName, currentPath, token, nestedKeys) ==
  [path |-> GroupPath(groupName, currentPath),
   issue |-> "NESTED_TOKENS",
   message |-> currentPath,
   originalStructure |-> O(<<<<tokenName, token>>>>),
   flattenedStructure |-> generateFlattenedExample(groupName, currentPath, token),
   flattenedFrom |-> flattenAll(groupName, currentPath, token).from,
   nestedTokens |-> nestedKeys,
   fixType |-> "flatten",
   autoFixable |-> TRUE]

\* analyzeTokenGroup(groupName, groupValue, path), from entry i on
RECURSIVE analyzeTokenGroup(_, _, _, _, _)
analyzeTokenGroup(st, groupName, groupValue, path, i) ==
  IF st.threw \/ i > Len(groupValue.kv) THEN st
  ELSE
    LET tokenName == groupValue.kv[i][1]
        token == groupValue.kv[i][2]
        currentPath == IF path # <<>> THEN Dot(path, tokenName) ELSE tokenName
        nestedKeys == NonDollarKeys(token)
        hasNestedTokens == someNestedToken(token, nestedKeys, 1)
        next(s) == analyzeTokenGroup(s, groupName, groupValue, path, i + 1)
    IN  IF StartsWithDollar(tokenName) \/ ~IsObj(token) THEN next(st)
        ELSE IF Has(token, kValue) \/ Has(token, kDType) THEN next(st)
        ELSE IF Len(nestedKeys) = 0 THEN next(st)
        ELSE IF hasNestedTokens = "throw" THEN Throw(st)
        ELSE IF hasNestedTokens = "true"
        THEN next([st EXCEPT !.structureIssues =
                     Append(@, StructureIssue(groupName, tokenName, currentPath,
                                              token, nestedKeys))])
        ELSE next(analyzeTokenGroup(st, groupName, token, currentPath, 1))

IsReservedRootKey(key) == key \in DTCG_GROUPS \/ key = kBrand

\* analyzeStructure(json), from entry i on
RECURSIVE analyzeStructure(_, _, _)
analyzeStructure(st, json, i) ==
  IF st.threw \/ i > Len(json.kv) THEN st
  ELSE LET key == json.kv[i][1]
           value == json.kv[i][2]
       IN  IF ~IsReservedRootKey(key) /\ IsObj(value)
           THEN analyzeStructure(analyzeTokenGroup(st, key, value, <<>>, 1), json, i + 1)
           ELSE analyzeStructure(st, json, i + 1)

----------------------------------------------------------------------------
(* Token validation *)

validateBrandMetadata(st, brand) ==
  IF ~TypeofObject(brand)
  THEN pushError(st, Dot(<<"$">>, kBrand), "Brand metadata must be an object", Undef)
  ELSE IF ~Truthy(Get(brand, kName))
  THEN pushWarning(st, Dot(Dot(<<"$">>, kBrand), kName), "Missing brand.", S(kName))
  ELSE st

validateToken(st, groupName, tokenName, token, parentPath) ==
  LET fullPath == IF parentPath # <<>> THEN Dot(parentPath, tokenName) ELSE tokenName
      hasDValue == Has(token, kDValue)
      hasValue == Has(token, kValue)
      keys == NonDollarKeys(token)
      st1 == IF ~hasDValue /\ ~hasValue
             THEN IF Len(keys) > 0
                  THEN pushError(st, GroupPath(groupName, fullPath),
                         "Token missing \"$value\" property - has nested structure instead",
                         Undef)
                  ELSE pushError(st, GroupPath(groupName, fullPath),
                         "Token missing \"$value\" property", Undef)
             ELSE st
      st2 == IF hasValue /\ ~hasDValue
             THEN pushWarning(st1, Dot(GroupPath(groupName, fullPath), kValue),
                    "Legacy \"value\" key used; prefer \"$value\" per DTCG 2025.10", Undef)
             ELSE st1
      st3 == IF Has(token, kType) /\ ~Has(token, kDType)
             THEN pushWarning(st2, Dot(GroupPath(groupName, fullPath), kType),
                    "Legacy \"type\" key used; prefer \"$type\" per DTCG 2025.10", Undef)
             ELSE st2
      type == Get(token, kDType)
      val == OrElse(Get(token, kDValue), Get(token, kValue))
      inferredType == inferTokenType(val)
      st4 == IF Truthy(type)
             THEN IF ~IsValidTokenType(type)
                  THEN pushWarning(st3, Dot(GroupPath(groupName, tokenName), kDType),
                                   "Unknown token type", type)
                  ELSE st3
             ELSE IF (hasDValue \/ hasValue) /\ Truthy(inferredType)
             THEN pushWarning(st3, GroupPath(groupName, tokenName),
                              "Missing $type - inferred as", inferredType)
             ELSE st3
  IN  IF Truthy(type) THEN validateTokenValue(st4, groupName, tokenName, token) ELSE st4

\* validateTokenGroup(groupName, groupValue, parentPath), from entry i on
RECURSIVE validateTokenGroup(_, _, _, _, _)
validateTokenGroup(st, groupName, groupValue, parentPath, i) ==
  IF st.threw \/ i > Len(groupValue.kv) THEN st
  ELSE
    LET tokenName == groupValue.kv[i][1]
        token == groupValue.kv[i][2]
        currentPath == IF parentPath # <<>> THEN Dot(parentPath, tokenName) ELSE tokenName
        next(s) == validateTokenGroup(s, groupName, groupValue, parentPath, i + 1)
    IN  IF StartsWithDollar(tokenName) THEN next(st)
        ELSE IF ~IsObj(token)
        THEN next(pushError(st, GroupPath(groupName, currentPath),
                            "Token must be an object", Undef))
        ELSE IF ~(Has(token, kDValue) \/ Has(token, kValue)) /\ Len(NonDollarKeys(token)) > 0
        THEN next(validateTokenGroup(st, groupName, token, currentPath, 1))
        ELSE next(validateToken(st, groupName, tokenName, token, parentPath))

\* validateTokenGroups(json), from entry i on; Object.entries(null) throws
RECURSIVE validateTokenGroups(_, _, _)
validateTokenGroups(st, json, i) ==
  IF st.threw \/ i > Len(json.kv) THEN st
  ELSE LET key == json.kv[i][1]
           value == json.kv[i][2]
       IN  IF IsReservedRootKey(key) THEN validateTokenGroups(st, json, i + 1)
           ELSE IF ~TypeofObject(value)
           THEN validateTokenGroups(
                  pushError(st, Dot(<<"$">>, key), "Token group must be an object", S(key)),
                  json, i + 1)
           ELSE IF value.t = "null" THEN Throw(st)
           ELSE validateTokenGroups(validateTokenGroup(st, key, value, <<>>, 1), json, i + 1)

----------------------------------------------------------------------------
(* validate *)

\* a validate that would start from the lists the call before left
keepLists(prev) == prev

\* the reset of the three lists at entry
resetLists(prev) == EmptyLists

\* a validate without the schema check
noSchemaCheck(st, json) == st

schemaCheck(st, json) ==
  LET schema == Get(json, kDSchema)
  IN  IF ~Truthy(schema)
      THEN pushWarning(st, Dot(<<"$">>, kDSchema), "Missing $schema declaration", Undef)
      ELSE IF schema # DTCG_SCHEMA_URL
      THEN pushWarning(st, Dot(<<"$">>, kDSchema), "Unexpected $schema version", schema)
      ELSE st

\* the instance's lists when validate(json) ends (st.threw: it ended by a
\* TypeError), starting from the lists prev of the call before
validateLists(prev, json) ==
  LET st0 == resetLists(prev)
  IN  IF ~IsObj(json)
      THEN pushError(st0, <<"$">>, "Invalid JSON structure", Undef)
      ELSE LET st1 == schemaCheck(st0, json)
               st2 == analyzeStructure(st1, json, 1)
               st3 == IF ~st2.threw /\ Truthy(Get(json, kBrand))
                      THEN validateBrandMetadata(st2, Get(json, kBrand))
                      ELSE st2
           IN  validateTokenGroups(st3, json, 1)

\* a valid that would tolerate one error
validUpToOneError(errors) == Len(errors) <= 1

\* a valid with the test inverted
validWhenErrors(errors) == Len(errors) # 0

\* valid: this.errors.length === 0
validValue(errors) == Len(errors) = 0

\* what validate(json) returns when it ends with the lists st; the early
\* return carries no structureIssues
validateResult(st, json) ==
  IF st.threw THEN [kind |-> "throw"]
  ELSE IF ~IsObj(json)
  THEN [kind |-> "result", valid |-> FALSE, errors |-> st.errors,
        warnings |-> st.warnings, hasStructureIssues |-> FALSE,
        structureIssues |-> <<>>]
  ELSE [kind |-> "result", valid |-> validValue(st.errors), errors |-> st.errors,
        warnings |-> st.warnings, hasStructureIssues |-> TRUE,
        structureIssues |-> st.structureIssues]

\* validate(json) on an instance whose lists are prev
validate(prev, json) == validateResult(validateLists(prev, json), json)

----------------------------------------------------------------------------
(* The normalizer: autoFix and its value conversions *)

HexValue(c) ==
  CASE c \in Digits -> DigitValue(c)
    [] c \in {"a", "A"} -> 10 [] c \in {"b", "B"} -> 11 [] c \in {"c", "C"} -> 12
    [] c \in {"d", "D"} -> 13 [] c \in {"e", "E"} -> 14 [] c \in {"f", "F"} -> 15

\* parseInt(c1 + c2, 16): <<n>>, or <<>> for NaN
parseIntHexPair(c1, c2) ==
  IF c1 \in {"-", "+"}
  THEN IF c2 \in HexDigits THEN <<IF c1 = "-" THEN 0 - HexValue(c2) ELSE HexValue(c2)>>
       ELSE <<>>
  ELSE IF c1 \notin HexDigits THEN <<>>
  ELSE IF c2 \in HexDigits THEN <<HexValue(c1) * 16 + HexValue(c2)>>
  ELSE IF c1 = "0" /\ c2 \in {"x", "X"} THEN <<>>
  ELSE <<HexValue(c1)>>

\* a channel rounded to two decimals only
colorChannelHundredths(byte) ==
  IF byte = <<>> THEN NaNV ELSE N(10 * ((200 * byte[1] + 255) \div 510))

\* Math.round((byte / 255) * 1000) / 1000 for byte = parseInt(..), as a
\* number value
colorChannel(byte) ==
  IF byte = <<>> THEN NaNV ELSE N((2000 * byte[1] + 255) \div 510)

\* hex.replace('#', ''): the first '#' removed
RECURSIVE removeFirstHash(_)
removeFirstHash(s) ==
  IF s = <<>> THEN <<>>
  ELSE IF Head(s) = "#" THEN Tail(s)
  ELSE <<Head(s)>> \o removeFirstHash(Tail(s))

convertToColorObject(hex) ==
  IF ~TypeofString(hex) THEN hex
  ELSE
    LET cleanHex == removeFirstHash(hex.s)
        short == Len(cleanHex) \in {3, 4}
        pair(i) == IF short THEN parseIntHexPair(cleanHex[i], cleanHex[i])
                   ELSE parseIntHexPair(cleanHex[2 * i - 1], cleanHex[2 * i])
    IN  IF Len(cleanHex) \notin {3, 4, 6, 8} THEN hex
        ELSE O(<<<<<<"colorSpace">>, T("srgb")>>,
                 <<<<"channels">>,
                   O(<<<<<<"r">>, colorChannel(pair(1))>>,
                       <<<<"g">>, colorChannel(pair(2))>>,
                       <<<<"b">>, colorChannel(pair(3))>>,
                       <<<<"a">>, N(1000)>>>>)>>>>)

\* the unit of DimensionUnits that starts at index j of s, <<>> when none
unitAt(s, j) ==
  LET found == {u \in DimensionUnits :
                  j + Len(u) - 1 <= Len(s) /\ SubSeq(s, j, j + Len(u) - 1) = u}
  IN  IF found = {} THEN <<>> ELSE CHOOSE u \in found : TRUE

\* the start of the leftmost match of /([\d.]+)(px|rem|...)/ at or after i,
\* 0 when there is none
RECURSIVE dimensionMatch(_, _)
dimensionMatch(s, i) ==
  IF i > Len(s) THEN 0
  ELSE IF s[i] \in Digits \cup {"."}
  THEN LET j == RunEnd(s, i, Digits \cup {"."})
       IN  IF unitAt(s, j) # <<>> THEN i ELSE dimensionMatch(s, j)
  ELSE dimensionMatch(s, i + 1)

\* parseDimension(dimStr), for a string dimStr
parseDimension(dimStr) ==
  LET s == dimStr.s
      i == dimensionMatch(s, 1)
      j == RunEnd(s, i, Digits \cup {"."})
  IN  IF i = 0 THEN dimStr
      ELSE O(<<<<kValue, parseFloat(SubSeq(s, i, j - 1), 1)>>,
               <<<<"unit">>, S(unitAt(s, j))>>>>)

WrapperKeys == {<<"DEFAULT">>, <<"default">>, <<"base">>, kValue}

\* the token branch of autoFix (Case 1)
autoFixToken(node, parentType) ==
  LET hasDollarValue == Has(node, kDValue)
      val == IF hasDollarValue THEN Get(node, kDValue) ELSE Get(node, kValue)
      resolvedType == IF Has(node, kDType) THEN Get(node, kDType)
                      ELSE IF Has(node, kType) THEN Get(node, kType)
                      ELSE OrElse(parentType, inferTokenType(val))
      newValue == IF resolvedType = T("color") /\ TypeofString(val)
                  THEN convertToColorObject(val)
                  ELSE IF resolvedType = T("dimension") /\ TypeofString(val)
                  THEN parseDimension(val)
                  ELSE IF resolvedType \in {T("number"), T("opacity")}
                          /\ TypeofString(val) /\ MatchesLooseNumber(val.s)
                  THEN parseFloat(val.s, 1)
                  ELSE val
      newType == OrElse(resolvedType, IF TypeofNumber(val) THEN T("number") ELSE T("string"))
      description == OrElse(Get(node, kDDescription), Get(node, kDescription))
      base == <<<<kDValue, newValue>>, <<kDType, newType>>>>
              \o (IF Truthy(description) THEN <<<<kDDescription, description>>>> ELSE <<>>)
      isOther(e) == StartsWithDollar(e[1]) /\ e[1] \notin {kDValue, kDType, kDDescription}
  IN  O(base \o SelectSeq(node.kv, isOther))

\* autoFix(node, parentType)
RECURSIVE autoFix(_, _)
autoFix(node, parentType) ==
  IF ~IsObj(node) THEN node
  ELSE IF node.t = "arr"
  THEN A([i \in 1..Len(node.kv) |-> <<node.kv[i][1], autoFix(node.kv[i][2], parentType)>>])
  ELSE
    LET hasValue == Has(node, kValue)
        hasDollarValue == Has(node, kDValue)
        keys == NonDollarKeys(node)
        child == Get(node, keys[1])
        wrapper == /\ Len(keys) = 1 /\ ~hasValue /\ ~hasDollarValue
                   /\ keys[1] \in WrapperKeys
                   /\ (TypeofString(child) \/ TypeofNumber(child) \/ IsObj(child))
        groupType == OrElse(Get(node, kDType), parentType)
        fixChild(e) ==
          IF StartsWithDollar(e[1]) THEN e
          ELSE IF e[2].t # "null" /\ ~TypeofObject(e[2])
          THEN <<e[1], autoFix(O(<<<<kValue, e[2]>>>>), groupType)>>
          ELSE <<e[1], autoFix(e[2], groupType)>>
    IN  IF wrapper
        THEN autoFix(IF IsObj(child) THEN child ELSE O(<<<<kValue, child>>>>), parentType)
        ELSE IF hasValue \/ hasDollarValue THEN autoFixToken(node, parentType)
        ELSE O([i \in 1..Len(node.kv) |-> fixChild(node.kv[i])])

----------------------------------------------------------------------------
(* Fix collection *)

\* a fix; from and shared are not fields of the source's object: for a
\* flatten fix they record which tokens of the validated document its `after`
\* entries were copied from, and whether that document is the caller's
\* current one (so that the copies' nested objects are the document's own)
Fix(id, type, path, before, after, from, shared) ==
  [id |-> id, type |-> type, path |-> path, before |-> before, after |-> after,
   approved |-> FALSE, from |-> from, shared |-> shared]

\* collectMissingTypes(obj, groupName, path, fixes), from entry i on
RECURSIVE collectMissingTypes(_, _, _, _, _)
collectMissingTypes(fixes, obj, groupName, path, i) ==
  IF i > Len(obj.kv) THEN fixes
  ELSE
    LET key == obj.kv[i][1]
        value == obj.kv[i][2]
        currentPath == IF path # <<>> THEN Dot(path, key) ELSE key
        inferredType == inferTokenType(Get(value, kValue))
        next(f) == collectMissingTypes(f, obj, groupName, path, i + 1)
    IN  IF StartsWithDollar(key) \/ ~IsObj(value) THEN next(fixes)
        ELSE IF Has(value, kValue) /\ ~Has(value, kDType)
        THEN IF Truthy(inferredType)
             THEN next(Append(fixes,
                    Fix(Len(fixes), "add-type", GroupPath(groupName, currentPath),
                        Spread(value), Put(Spread(value), kDType, inferredType),
                        O(<<>>), FALSE)))
             ELSE next(fixes)
        ELSE IF ~Has(value, kValue) /\ ~Has(value, kDType)
        THEN next(collectMissingTypes(fixes, value, groupName, currentPath, 1))
        ELSE next(fixes)

\* the first loop of getFixableIssues, from entry i on: acc.threw when
\* Object.entries meets a null group
RECURSIVE collectGroups(_, _, _)
collectGroups(acc, json, i) ==
  IF acc.threw \/ i > Len(json.kv) THEN acc
  ELSE LET groupName == json.kv[i][1]
           group == json.kv[i][2]
       IN  IF IsReservedRootKey(groupName) \/ ~TypeofObject(group)
           THEN collectGroups(acc, json, i + 1)
           ELSE IF group.t = "null" THEN [acc EXCEPT !.threw = TRUE]
           ELSE collectGroups(
                  [acc EXCEPT !.fixes = collectMissingTypes(@, group, groupName, <<>>, 1)],
                  json, i + 1)

\* the second loop of getFixableIssues: one flatten fix per structure issue
RECURSIVE collectFlattens(_, _, _, _)
collectFlattens(fixes, issues, shared, i) ==
  IF i > Len(issues) THEN fixes
  ELSE LET issue == issues[i]
       IN  IF issue.autoFixable
           THEN collectFlattens(
                  Append(fixes, Fix(Len(fixes), "flatten", issue.path,
                                    issue.originalStructure, issue.flattenedStructure,
                                    issue.flattenedFrom, shared)),
                  issues, shared, i + 1)
           ELSE collectFlattens(fixes, issues, shared, i + 1)

\* getFixableIssues(json) on an instance whose structureIssues are issues;
\* Object.keys(null) throws, and of a primitive has no group to offer
getFixableIssues(issues, json, shared) ==
  LET groups == IF json.t = "null" THEN [threw |-> TRUE, fixes |-> <<>>]
                ELSE IF ~IsObj(json) THEN [threw |-> FALSE, fixes |-> <<>>]
                ELSE collectGroups([threw |-> FALSE, fixes |-> <<>>], json, 1)
  IN  IF groups.threw THEN [kind |-> "throw"]
      ELSE [kind |-> "fixes", fixes |-> collectFlattens(groups.fixes, issues, shared, 1)]

----------------------------------------------------------------------------
(* Fix application.  The working state ws holds res, the deep copy being   *)
(* rewritten, and doc, the caller's document: Object.assign puts the fix's *)
(* own `after` entries into res, and the nested objects of those entries   *)
(* are objects of the validated document, held in res as Ref(path).        *)

RECURSIVE ValueAt(_, _)
ValueAt(tree, p) == IF p = <<>> THEN tree ELSE ValueAt(Get(tree, Head(p)), Tail(p))

RECURSIVE SetAt(_, _, _)
SetAt(tree, p, v) ==
  IF p = <<>> THEN v ELSE Put(tree, Head(p), SetAt(Get(tree, Head(p)), Tail(p), v))

RECURSIVE Deref(_, _)
Deref(v, doc) ==
  IF v.t = "ref" THEN ValueAt(doc, v.p)
  ELSE IF IsObj(v)
  THEN [v EXCEPT !.kv = [i \in 1..Len(v.kv) |-> <<v.kv[i][1], Deref(v.kv[i][2], doc)>>]]
  ELSE v

locValue(ws, loc) == IF loc.in = "res" THEN ValueAt(ws.res, loc.p) ELSE ValueAt(ws.doc, loc.p)

\* the place of current[key]
childOf(ws, loc, key) ==
  LET v == Get(locValue(ws, loc), key)
  IN  IF v.t = "ref" THEN [in |-> "doc", p |-> v.p]
      ELSE [in |-> loc.in, p |-> Append(loc.p, key)]

writeLoc(ws, loc, v) ==
  IF loc.in = "res" THEN [ws EXCEPT !.res = SetAt(@, loc.p, v)]
  ELSE [ws EXCEPT !.doc = SetAt(@, loc.p, v)]

\* for (i = 0; i < parts.length - 1; i++) {
\*   if (!current[parts[i]]) break; current = current[parts[i]]; }
RECURSIVE walk(_, _, _, _)
walk(ws, current, parts, i) ==
  IF i > Len(parts) - 1 THEN current
  ELSE LET nxt == childOf(ws, current, parts[i])
       IN  IF ~Truthy(locValue(ws, nxt)) THEN current
           ELSE walk(ws, nxt, parts, i + 1)

\* fix.path.split('.').filter(p => p !== '$')
pathParts(path) == SelectSeq(Split(path), LAMBDA part : part # <<"$">>)

\* the entries of fix.after as Object.assign stores them: the fix's own
\* token objects, whose nested objects are those of the document
afterEntries(fix) ==
  LET share(k, v) ==
        IF fix.shared /\ IsObj(v) /\ Has(fix.from, k)
        THEN O([j \in 1..Len(v.kv) |->
                  IF IsObj(v.kv[j][2])
                  THEN <<v.kv[j][1], Ref(Append(Get(fix.from, k), v.kv[j][1]))>>
                  ELSE v.kv[j]])
        ELSE v
  IN  [i \in 1..Len(fix.after.kv) |->
         <<fix.after.kv[i][1], share(fix.after.kv[i][1], fix.after.kv[i][2])>>]

\* Object.assign(target, source) for the entries of source
RECURSIVE assignEntries(_, _, _)
assignEntries(target, entries, i) ==
  IF i > Len(entries) THEN target
  ELSE assignEntries(Put(target, entries[i][1], entries[i][2]), entries, i + 1)

applyAddType(ws, fix) ==
  LET parts == pathParts(fix.path)
      current == walk(ws, [in |-> "res", p |-> <<>>], parts, 1)
      target == childOf(ws, current, LastOf(parts))
      tv == locValue(ws, target)
  IN  IF ws.res.t = "null" THEN (IF Len(parts) >= 2 THEN Throw(ws) ELSE ws)
      ELSE IF Truthy(locValue(ws, current)) /\ Truthy(tv)
      THEN IF IsObj(tv) THEN writeLoc(ws, target, Put(tv, kDType, Get(fix.after, kDType)))
           ELSE Throw(ws)
      ELSE ws

\* where the flattened tokens are put: Object.assign(result[groupName], ..)
mergeTarget(groupName, tokenPath) == <<groupName>>

applyFlatten(ws, fix) ==
  LET parts == pathParts(fix.path)
      groupName == parts[1]
      tokenPath == Tail(parts)
      current == walk(ws, [in |-> "res", p |-> <<groupName>>], tokenPath, 1)
      lastKey == LastOf(tokenPath)
      deleted == writeLoc(ws, current, Del(locValue(ws, current), lastKey))
      into == mergeTarget(groupName, tokenPath)
  IN  IF ws.res.t = "null" THEN Throw(ws)
      ELSE IF ~Truthy(Get(ws.res, groupName)) \/ tokenPath = <<>> THEN ws
      ELSE IF Truthy(locValue(ws, childOf(ws, current, lastKey)))
      THEN [deleted EXCEPT !.res =
              SetAt(@, into, assignEntries(ValueAt(deleted.res, into), afterEntries(fix), 1))]
      ELSE ws

\* a loop that would apply a fix whether approved or not
approvedOrNot(fix) == TRUE

\* the loop's test of fix.approved
isApproved(fix) == fix.approved

RECURSIVE applyFixes(_, _, _)
applyFixes(ws, fixes, i) ==
  IF ws.threw \/ i > Len(fixes) THEN ws
  ELSE IF ~isApproved(fixes[i]) THEN applyFixes(ws, fixes, i + 1)
  ELSE IF fixes[i].type = "add-type" THEN applyFixes(applyAddType(ws, fixes[i]), fixes, i + 1)
  ELSE IF fixes[i].type = "flatten" THEN applyFixes(applyFlatten(ws, fixes[i]), fixes, i + 1)
  ELSE applyFixes(ws, fixes, i + 1)

\* JSON.parse(JSON.stringify(json)): the copy shares nothing with json
deepCopy(json) == json

\* applyApprovedFixes(json, fixes): threw, or the result returned; doc is
\* the caller's json when the call ends
applyApprovedFixes(json, fixes) ==
  LET ws == applyFixes([res |-> deepCopy(json), doc |-> json, threw |-> FALSE], fixes, 1)
  IN  [threw |-> ws.threw, result |-> Deref(ws.res, ws.doc), doc |-> ws.doc]

----------------------------------------------------------------------------
(* Documents: the parsed JSON values the caller hands to the validator *)

\* the depth to which generated documents nest subgroups below a group
MaxDepth == 2

Obj1(k, v) == O(<<<<k, v>>>>)
Obj2(k1, v1, k2, v2) == O(<<<<k1, v1>>, <<k2, v2>>>>)

kColors == <<"colors">>
kPrimary == <<"primary">>
kHover == <<"hover">>
kActive == <<"active">>
kStates == <<"states">>
kOn == <<"on">>

vHex111 == S(<<"#", "1", "1", "1">>)
vHex222 == S(<<"#", "2", "2", "2">>)
vHex333 == S(<<"#", "3", "3", "3">>)
vHexE00069 == S(<<"#", "E", "0", "0", "0", "6", "9">>)
vHexZZZ == S(<<"#", "Z", "Z", "Z">>)
v16px == S(<<"1", "6", "p", "x">>)
vHalf == N(500)
vTwo == N(2000)
vText == S(<<"h", "i">>)

tColor == Obj2(kDValue, vHex111, kDType, T("color"))
tDollarOnly == Obj1(kDValue, vHex222)
tLegacy == Obj1(kValue, vHex333)
tLegacyTyped == Obj2(kValue, vHex111, kType, T("color"))
tBadHex == Obj2(kDValue, vHexZZZ, kDType, T("color"))
tEmpty == O(<<>>)
tTypeOnly == Obj1(kDType, T("color"))
tDimension == Obj2(kDValue, v16px, kDType, T("dimension"))
tLegacyNumber == Obj1(kValue, vHalf)
tUnknownType == Obj2(kDValue, vTwo, kDType, T("mystery"))
tOpaque == Obj1(kDValue, vText)

Tokens ==
  {tColor, tDollarOnly, tLegacy, tLegacyTyped, tBadHex, tEmpty, tTypeOnly,
   tDimension, tLegacyNumber, tUnknownType, tOpaque}

\* what a group's child may be besides a token
Leaves == Tokens \cup {Null, vHex111, B(TRUE), A(<<>>), A(<<<<<<"0">>, tLegacy>>>>)}

\* the children paired in two-child clusters
PairLeaves == {tColor, tDollarOnly, tLegacy, tTypeOnly, Null}

Level1 ==
  Leaves
  \cup {Obj1(kHover, x) : x \in Leaves}
  \cup {Obj2(kHover, x, kActive, y) : x \in PairLeaves, y \in PairLeaves}

NestKeys == <<kStates, <<"modes">>, <<"sets">>, <<"variants">>>>
NestKey(d) == NestKeys[((d - 1) % Len(NestKeys)) + 1]

RECURSIVE Level(_)
Level(d) ==
  IF d <= 1 THEN Level1
  ELSE Level1 \cup {Obj1(NestKey(d), n) : n \in Level(d - 1)}

GeneratedDocs == {Obj1(kColors, Obj1(kBrand, n)) : n \in Level(MaxDepth)}

\* the scenarios of the specification
DocNested == Obj1(kColors, Obj1(kBrand, Obj1(kHover, tColor)))
DocLegacy == Obj1(kColors, Obj1(kPrimary, Obj1(kValue, vHexE00069)))
DocBadHex == Obj1(kColors, Obj1(kPrimary, tBadHex))
DocEmpty == O(<<>>)

\* documents that are not an object, and groups that are not
DocNull == Null
DocNumber == N(5000)
DocString == vText
DocArray == A(<<>>)
DocNullGroup == Obj1(kColors, Null)
DocStringGroup == Obj1(kColors, vHex111)
DocArrayGroup == Obj1(kColors, A(<<<<<<"0">>, tColor>>>>))

\* root metadata
DocGoodSchema == Obj2(kDSchema, DTCG_SCHEMA_URL, kColors, Obj1(kPrimary, tColor))
DocOtherSchema == Obj2(kDSchema, vText, kColors, Obj1(kPrimary, tLegacy))
DocBrandNamed == Obj2(kBrand, Obj1(kName, vText), kColors, Obj1(kPrimary, tColor))
DocBrandString == Obj1(kBrand, vText)
DocBrandWrapper == Obj1(kBrand, Obj1(<<"default">>, B(TRUE)))

\* a group that carries a type, wrapper keys, a token beside a cluster
DocGroupType ==
  Obj1(kColors, Obj2(kDType, T("color"), kPrimary, tDollarOnly))
DocWrapper == Obj1(kColors, Obj1(kPrimary, Obj1(<<"DEFAULT">>, vHex111)))
DocSibling ==
  Obj1(kColors, Obj2(kBrand, Obj1(kHover, tLegacy),
                     <<"brand", "-", "hover">>, tColor))
DocTwoGroups ==
  Obj2(kColors, Obj1(kPrimary, tLegacy), <<"spacing">>, Obj1(<<"small">>, tDimension))

\* a cluster whose flattened name is the name of a sibling subgroup
DocSharedName ==
  Obj1(kColors,
       Obj2(kBrand, Obj1(kHover, Obj2(kDType, T("color"), kStates, Obj1(kOn, B(TRUE)))),
            <<"brand", "-", "hover">>,
            Obj1(kStates, Obj1(kOn, Obj1(<<"x">>, Obj1(kValue, B(TRUE)))))))

\* a subgroup with an empty token, a child that is no object and a token
DocMixed ==
  Obj1(kColors, Obj1(kBrand, O(<<<<kHover, tEmpty>>, <<kActive, vHex111>>, <<kOn, tLegacy>>>>)))

\* a group with a `$type` and a token without one
GroupTyped(type, v) == Obj1(kColors, Obj2(kDType, type, kPrimary, Obj1(kDValue, v)))
GroupTypedCases == {<<T("color"), vHex222>>, <<T("color"), vHexZZZ>>, <<T("number"), vText>>}
\* a typed group in a typed group, the token in the inner one
DocNearestType ==
  Obj1(kColors, Obj2(kDType, T("color"),
                     kBrand, Obj2(kDType, T("number"), kHover, Obj1(kDValue, vTwo))))

\* a token under the key a deeper cluster of other documents has
DocShallow == Obj1(kColors, Obj1(NestKey(2), tColor))

\* a token with a token among its children
DocTokenInToken ==
  Obj1(kColors, Obj1(kPrimary, O(<<<<kDValue, vHex111>>, <<kDType, T("color")>>,
                                   <<kHover, tDimension>>>>)))

CuratedDocs ==
  {GroupTyped(c[1], c[2]) : c \in GroupTypedCases} \cup
  {DocShallow, DocTokenInToken, DocNearestType, DocMixed, DocNested, DocLegacy, DocBadHex, DocEmpty, DocNull, DocNumber, DocString,
   DocArray, DocNullGroup, DocStringGroup, DocArrayGroup, DocGoodSchema,
   DocOtherSchema, DocBrandNamed, DocBrandString, DocBrandWrapper, DocGroupType,
   DocWrapper, DocSibling, DocTwoGroups, DocSharedName}

\* top-level values that are not an object
DocZero == N(0)
DocEmptyString == S(<<>>)
DocTrue == B(TRUE)
DocFalse == B(FALSE)
NonObjectDocs ==
  {DocNull, DocNumber, DocZero, DocString, DocEmptyString, DocTrue, DocFalse}

\* a document of one token: {"colors": {"primary": t}}
TokenDoc(t) == Obj1(kColors, Obj1(kPrimary, t))
\* the token {"$value": v, "$type": type}
Typed(v, type) == Obj2(kDValue, v, kDType, type)

\* strings that start with '#': 0 to 9 hexadecimal digits after it, and
\* strings with a digit that is not hexadecimal
HexRun == <<"1", "a", "F", "0", "9", "c", "B", "7", "e">>
HexStrings ==
  {<<"#">> \o SubSeq(HexRun, 1, n) : n \in 0..9}
  \cup {<<"#", "Z", "Z", "Z">>, <<"#", "1", "2", "3", "4", "5", "G">>,
        <<"#", "1", "2", "3", "4", "5", "6", "7", "g">>, <<"#", "1", "2", "#">>}
HexColorTokens == {Typed(S(s), T("color")) : s \in HexStrings}

\* opacity values: numbers inside, at and outside the ends of [0, 1], and
\* values that are not numbers
OpacityValues ==
  {N(0), N(1), N(500), N(999), N(1000), N(1001), N(2000), N(0 - 1), N(0 - 500),
   S(<<"0", ".", "5">>), S(<<>>), Null, B(TRUE), B(FALSE), O(<<>>)}
OpacityTokens == {Typed(v, T("opacity")) : v \in OpacityValues}

\* `$type` values outside the vocabulary, on tokens with and without a value
UnknownTypes == {T("mystery"), T("Color"), T("string"), N(5000), B(TRUE), O(<<>>)}
UnknownTypeTokens ==
  {Typed(v, type) : v \in {vTwo, vHexZZZ, v16px, N(0)}, type \in UnknownTypes}
  \cup {Obj1(kDType, type) : type \in UnknownTypes}
  \cup {Obj2(kValue, vHexZZZ, kDType, type) : type \in UnknownTypes}

\* tokens with the legacy `value` key, no `$value` and no `$type`
LegacyValues ==
  {vHexE00069, v16px, vText, S(<<>>), S(<<"1", "m", "s">>), S(<<"0", ".", "5">>),
   N(0), N(500), N(2000), Null, B(TRUE), B(FALSE)}
LegacyTokens == {Obj1(kValue, v) : v \in LegacyValues}

\* tokens with a `$value`: falsy and truthy ones, with and without a legacy
\* `value` beside it, with and without a `$type`
DollarValues == {N(0), S(<<>>), B(FALSE), Null, N(500)}
DollarValueTokens ==
  {O(<<<<kDValue, v>>>> \o legacy \o type) :
     v \in DollarValues,
     legacy \in {<<>>, <<<<kValue, vHexE00069>>>>},
     type \in {<<>>, <<<<kDType, T("number")>>>>, <<<<kDType, T("color")>>>>}}

TokenDocs ==
  {TokenDoc(t) : t \in HexColorTokens \cup OpacityTokens \cup UnknownTypeTokens
                        \cup LegacyTokens \cup DollarValueTokens}

Docs == GeneratedDocs \cup CuratedDocs \cup NonObjectDocs \cup TokenDocs

\* the documents a caller may turn to while the instance holds the lists of
\* an earlier validate call
SwitchDocs == {DocNested, DocLegacy, DocEmpty, DocNumber, DocNullGroup, DocSibling, DocShallow}

----------------------------------------------------------------------------
(* The state machine: one validator instance and its caller *)

VARIABLES
  doc,              \* the caller's document (the object it passes to every call)
  errors,           \* this.errors
  warnings,         \* this.warnings
  structureIssues,  \* this.structureIssues
  issuesOf,         \* whether the structure issues were computed from the
                    \* object doc: "doc" (and doc is as it was then), "changed"
                    \* (and doc was rewritten in place since), "other"
  fixes,            \* the Fix list the caller holds (from getFixableIssues)
  op,               \* the last call made
  ret,              \* what it returned (kind "throw": it threw)
  entry             \* the instance's lists as the last validate call found them

vars == <<doc, errors, warnings, structureIssues, issuesOf, fixes, op, ret, entry>>

lists == [errors |-> errors, warnings |-> warnings,
          structureIssues |-> structureIssues, threw |-> FALSE]

\* the constructor, and a caller holding any document
Init ==
  /\ doc \in Docs
  /\ errors = <<>>
  /\ warnings = <<>>
  /\ structureIssues = <<>>
  /\ issuesOf = "other"
  /\ fixes = <<>>
  /\ op = "new"
  /\ ret = [kind |-> "none"]
  /\ entry = EmptyLists

\* the caller turns to another document (another object) and drops the fix
\* list it held for the old one
LoadDoc(d) ==
  /\ d # doc
  /\ doc' = d
  /\ issuesOf' = "other"
  /\ fixes' = <<>>
  /\ op' = "load"
  /\ ret' = [kind |-> "none"]
  /\ UNCHANGED <<errors, warnings, structureIssues, entry>>

\* validate(doc)
Validate ==
  /\ \E st \in {validateLists(lists, doc)} :
       /\ errors' = st.errors
       /\ warnings' = st.warnings
       /\ structureIssues' = st.structureIssues
       /\ ret' = validateResult(st, doc)
  /\ issuesOf' = "doc"
  /\ op' = "validate"
  /\ entry' = lists
  /\ UNCHANGED <<doc, fixes>>

\* fixes = getFixableIssues(doc)
GetFixableIssues ==
  /\ issuesOf # "changed"
  /\ ret' = getFixableIssues(structureIssues, doc, issuesOf = "doc")
  /\ fixes' = IF ret'.kind = "throw" THEN fixes ELSE ret'.fixes
  /\ op' = "getFixableIssues"
  /\ UNCHANGED <<doc, errors, warnings, structureIssues, issuesOf, entry>>

\* the caller approves one fix of its list
Approve(i) ==
  /\ ~fixes[i].approved
  /\ fixes' = [fixes EXCEPT ![i].approved = TRUE]
  /\ op' = "approve"
  /\ ret' = [kind |-> "none"]
  /\ UNCHANGED <<doc, errors, warnings, structureIssues, issuesOf, entry>>

\* applyApprovedFixes(doc, fixes); the caller keeps the list unless the call
\* rewrote its document
ApplyApprovedFixes ==
  /\ fixes # <<>>
  /\ \E r \in {applyApprovedFixes(doc, fixes)} :
       /\ doc' = r.doc
       /\ ret' = IF r.threw THEN [kind |-> "throw"]
                 ELSE [kind |-> "document", value |-> r.result]
  /\ issuesOf' = IF doc' # doc /\ issuesOf = "doc" THEN "changed" ELSE issuesOf
  /\ fixes' = IF doc' # doc THEN <<>> ELSE fixes
  /\ op' = "applyApprovedFixes"
  /\ UNCHANGED <<errors, warnings, structureIssues, entry>>

\* autoFix(doc)
AutoFix ==
  /\ op' = "autoFix"
  /\ ret' = [kind |-> "document", value |-> autoFix(doc, Null)]
  /\ UNCHANGED <<doc, errors, warnings, structureIssues, issuesOf, fixes, entry>>

Next ==
  \/ \E d \in SwitchDocs : LoadDoc(d)
  \/ Validate
  \/ GetFixableIssues
  \/ \E i \in 1..Len(fixes) : Approve(i)
  \/ ApplyApprovedFixes
  \/ AutoFix

Spec == Init /\ [][Next]_vars

----------------------------------------------------------------------------
(* inferTokenType called on its own: the caller holds a value (in doc) and *)
(* asks for its type                                                       *)

\* the length to which the value strings are enumerated
MaxInferLen == 3

InferAlphabet == {"#", "r", "g", "b", "0", "1", "2", ".", "-", "p", "x", "m", "s", "%"}

\* the strings over InferAlphabet of length n or less
RECURSIVE StringsUpTo(_)
StringsUpTo(n) ==
  IF n = 0 THEN {<<>>}
  ELSE LET shorter == StringsUpTo(n - 1)
       IN  shorter \cup {Append(s, c) : s \in {x \in shorter : Len(x) = n - 1},
                                        c \in InferAlphabet}

\* longer strings: fractions with units, signs, exponents, other letters
LongStrings ==
  {<<"1", "6", "p", "x">>, <<"1", ".", "5", "p", "x">>, <<"1", ".", "5", "r", "e", "m">>,
   <<"2", "v", "m", "i", "n">>, <<"1", "0", "0", "%">>, <<"1", "p", "x", "x">>,
   <<"-", "1", "p", "x">>, <<"-", "1", ".", "5", "p", "x">>, <<"1", " ", "p", "x">>,
   <<"-", "0", ".", "5", "m", "s">>, <<"-", "1", "0", "s">>, <<"1", "0", "m", "s">>,
   <<"0", ".", "2", "5", "s">>, <<"+", "1", "s">>, <<"-", "-", "1", "s">>,
   <<"0", ".", "5", "0">>, <<"1", ".", "0", "0">>, <<"1", ".", "0", "0", "1">>,
   <<"0", "0", "1", ".", "0">>, <<"0", "1", ".", "5">>, <<"1", "0", "0", "0">>,
   <<"-", "0", ".", "5">>, <<"0", ".", "5", ".", "1">>, <<"1", ".", ".", "5">>,
   <<"1", "e", "3">>, <<" ", "1">>, <<"+", "1">>,
   <<"r", "g", "b", "(", "0", ",", "0", ",", "0", ")">>, <<"r", "g", "b", "a">>,
   <<"R", "G", "B">>, <<"a", "r", "g", "b">>, <<"#", "E", "0", "0", "0", "6", "9">>,
   <<"h", "i">>, <<"r", "e", "d">>}

InferInputs ==
  {S(s) : s \in StringsUpTo(MaxInferLen) \cup LongStrings}
  \cup {N(0), N(1), N(500), N(1000), N(1001), N(2000), N(0 - 500), N(0 - 2000)}
  \cup {Null, Undef, B(TRUE), B(FALSE), O(<<>>), A(<<>>), tColor, tLegacy}

InitInfer ==
  /\ doc \in InferInputs
  /\ errors = <<>>
  /\ warnings = <<>>
  /\ structureIssues = <<>>
  /\ issuesOf = "other"
  /\ fixes = <<>>
  /\ op = "new"
  /\ ret = [kind |-> "none"]
  /\ entry = EmptyLists

\* inferTokenType(doc)
InferTokenType ==
  /\ op' = "inferTokenType"
  /\ ret' = [kind |-> "type", value |-> inferTokenType(doc)]
  /\ UNCHANGED <<doc, errors, warnings, structureIssues, issuesOf, fixes, entry>>

NextInfer == InferTokenType

SpecInfer == InitInfer /\ [][NextInfer]_vars

----------------------------------------------------------------------------
(* Properties *)

\* C1: whenever validate returns a result, its valid is true exactly when
\* its errors list is empty, and false exactly when the list holds an entry.
ValidIffNoErrors ==
  (op = "validate" /\ ret.kind = "result") => (ret.valid <=> Len(ret.errors) = 0)

\* a validate call that returned errors, and valid = false with them
ValidIffNoErrorsWitness ==
  op = "validate" /\ ret.kind = "result" /\ Len(ret.errors) > 0 /\ ~ret.valid

\* C2: validate never throws: for every document, the call returns a result
\* object.
ValidateNeverThrows == op = "validate" => ret.kind = "result"

\* the values stored under a `$value` or `value` key anywhere inside v
RECURSIVE valuesUnder(_)
valuesUnder(v) ==
  IF ~IsObj(v) THEN {}
  ELSE UNION {(IF v.kv[i][1] \in {kDValue, kValue} THEN {v.kv[i][2]} ELSE {})
              \cup valuesUnder(v.kv[i][2]) : i \in 1..Len(v.kv)}

\* C3: for every NESTED_TOKENS issue validate returns, every value stored
\* under a `$value` or `value` key inside the issue's originalStructure is
\* stored under such a key in its flattenedStructure.
FlattenKeepsLeafValues ==
  (op = "validate" /\ ret.kind = "result" /\ ret.hasStructureIssues) =>
    \A i \in 1..Len(ret.structureIssues) :
      valuesUnder(ret.structureIssues[i].originalStructure)
        \subseteq valuesUnder(ret.structureIssues[i].flattenedStructure)

\* validate(d) on a fresh instance reports no errors
Conformant(d) ==
  LET r == validate(EmptyLists, d)
  IN  r.kind = "result" /\ r.valid

\* C4: for a conformant document, autoFix of the document autoFix returned
\* is structurally equal to that document.
AutoFixIdempotent ==
  (op = "autoFix" /\ Conformant(doc)) => StructEq(autoFix(ret.value, Null), ret.value)

\* C5: a call of autoFix or applyApprovedFixes leaves the caller's document
\* structurally as it was before the call.
CallerDocumentUnchanged ==
  [][op' \in {"autoFix", "applyApprovedFixes"} => StructEq(doc', doc)]_vars

\* the sub-list of the approved fixes
approvedOnly(fs) == SelectSeq(fs, LAMBDA f : f.approved)

\* what the caller sees of a call that ended as r
returned(r) ==
  IF r.threw THEN [kind |-> "throw"] ELSE [kind |-> "document", value |-> r.result]

\* C6: applyApprovedFixes returns what it returns for the sub-list of the
\* approved fixes, and, when no fix is approved, a document structurally
\* equal to the one it was given.
OnlyApprovedApplied ==
  [][op' = "applyApprovedFixes" =>
       /\ ret' = returned(applyApprovedFixes(doc, approvedOnly(fixes)))
       /\ approvedOnly(fixes) = <<>> =>
            (ret'.kind = "document" /\ StructEq(ret'.value, doc))]_vars

\* a call with an approved and an unapproved fix that returned a rewritten
\* document
OnlyApprovedAppliedWitness ==
  /\ op = "applyApprovedFixes" /\ ret.kind = "document"
  /\ \E i \in 1..Len(fixes) : fixes[i].approved
  /\ \E i \in 1..Len(fixes) : ~fixes[i].approved
  /\ ~StructEq(ret.value, doc)

\* C7: on an instance used before, validate returns what it returns on a
\* fresh instance for the same document.
ReusedAsFresh == op = "validate" => ret = validate(EmptyLists, doc)

\* a validate call that found the errors of an earlier call in the instance
\* and returned a result without errors
ReusedAsFreshWitness ==
  /\ op = "validate" /\ Len(entry.errors) > 0
  /\ ret.kind = "result" /\ Len(ret.errors) = 0

\* the flatten fixes of a list
flattenFixes(fs) == SelectSeq(fs, LAMBDA f : f.type = "flatten")

\* C8: getFixableIssues(D) returns one flatten fix for each NESTED_TOKENS
\* cluster of D (those validate reports for D on a fresh instance), with the
\* cluster's path, original structure and flattened structure, whatever
\* validate calls were made on the instance before.
FlattenFixPerCluster ==
  (op = "getFixableIssues" /\ ret.kind = "fixes"
     /\ ~validateLists(EmptyLists, doc).threw) =>
    LET fl == flattenFixes(ret.fixes)
        clusters == validateLists(EmptyLists, doc).structureIssues
    IN  /\ Len(fl) = Len(clusters)
        /\ \A i \in 1..Len(fl) :
             /\ fl[i].path = clusters[i].path
             /\ fl[i].before = clusters[i].originalStructure
             /\ fl[i].after = clusters[i].flattenedStructure

\* document d with the cluster of a flatten fix deleted from its immediate
\* parent and the fix's flattened tokens merged into that parent
flattenedInParent(d, fix) ==
  LET parts == pathParts(fix.path)
      parent == SubSeq(parts, 1, Len(parts) - 1)
  IN  SetAt(d, parent,
            assignEntries(Del(ValueAt(d, parent), LastOf(parts)), fix.after.kv, 1))

\* C9: applying one approved flatten fix at $.G.K1...Kn to a document that
\* holds the cluster deletes Kn from its immediate parent and merges the
\* flattened tokens into that parent, at every depth n.
FlattenIntoParent ==
  (/\ op = "applyApprovedFixes" /\ ret.kind = "document"
   /\ Len(approvedOnly(fixes)) = 1
   /\ approvedOnly(fixes)[1].type = "flatten"
   /\ IsObj(ValueAt(doc, pathParts(approvedOnly(fixes)[1].path)))) =>
    StructEq(ret.value, flattenedInParent(doc, approvedOnly(fixes)[1]))

\* the tokens below node (at path) that carry `$value` or `value`, have no
\* `$type` and whose value has an inferred type, each with that type
RECURSIVE tokensMissingType(_, _)
tokensMissingType(node, path) ==
  UNION {LET key == node.kv[i][1]
             value == node.kv[i][2]
             inferred == inferTokenType(OrElse(Get(value, kDValue), Get(value, kValue)))
         IN  IF StartsWithDollar(key) \/ ~IsObj(value) THEN {}
             ELSE IF Has(value, kDValue) \/ Has(value, kValue)
             THEN IF ~Has(value, kDType) /\ Truthy(inferred)
                  THEN {<<Dot(path, key), inferred>>}
                  ELSE {}
             ELSE tokensMissingType(value, Dot(path, key))
         : i \in 1..Len(node.kv)}

\* the same over the token groups of a document
tokensMissingTypeOf(json) ==
  IF ~IsObj(json) THEN {}
  ELSE UNION {IF IsReservedRootKey(json.kv[i][1]) \/ ~IsObj(json.kv[i][2]) THEN {}
              ELSE tokensMissingType(json.kv[i][2], Dot(<<"$">>, json.kv[i][1]))
              : i \in 1..Len(json.kv)}

\* C10: getFixableIssues returns an add-type fix for a token exactly when
\* the token carries `$value` or `value`, has no `$type`, and its value has
\* an inferred type; the fix has the token's path and the inferred type.
AddTypeFixPerToken ==
  (op = "getFixableIssues" /\ ret.kind = "fixes") =>
    {<<ret.fixes[i].path, Get(ret.fixes[i].after, kDType)>> :
       i \in {j \in 1..Len(ret.fixes) : ret.fixes[j].type = "add-type"}}
      = tokensMissingTypeOf(doc)

\* a node carries a value key: `$value` or `value`
hasValueKey(v) == Has(v, kDValue) \/ Has(v, kValue)

\* a child looks like a token: it has a value key or a `$type`
looksLikeToken(c) == IsObj(c) /\ (hasValueKey(c) \/ Has(c, kDType))

\* the nodes below node (at path) that have no value key, have a non-`$`
\* child, and have such a child that looks like a token, each with its path
\* and key; a value-less node whose children do not look like tokens is a
\* subgroup
RECURSIVE nestedClusters(_, _)
nestedClusters(node, path) ==
  UNION {LET key == node.kv[i][1]
             value == node.kv[i][2]
             children == NonDollarKeys(value)
         IN  IF StartsWithDollar(key) \/ ~IsObj(value) THEN {}
             ELSE IF hasValueKey(value) \/ Len(children) = 0 THEN {}
             ELSE IF \E j \in 1..Len(children) : looksLikeToken(Get(value, children[j]))
             THEN {[path |-> Dot(path, key), key |-> key, node |-> value]}
             ELSE nestedClusters(value, Dot(path, key))
         : i \in 1..Len(node.kv)}

\* the same over the top-level groups of a document
nestedClustersOf(json) ==
  UNION {IF IsReservedRootKey(json.kv[i][1]) \/ ~IsObj(json.kv[i][2]) THEN {}
         ELSE nestedClusters(json.kv[i][2], Dot(<<"$">>, json.kv[i][1]))
         : i \in 1..Len(json.kv)}

\* C11: after validate(D), structureIssues holds a NESTED_TOKENS entry for a
\* node under a top-level group exactly when the node has no value key
\* (`$value` or `value`), has a non-`$` child, and one of those children has
\* a value key or a `$type`; other value-less nodes are recursed into.
NestedTokensExactly ==
  (op = "validate" /\ ret.kind = "result" /\ ret.hasStructureIssues) =>
    /\ \A i \in 1..Len(structureIssues) : structureIssues[i].issue = "NESTED_TOKENS"
    /\ {structureIssues[i].path : i \in 1..Len(structureIssues)}
         = {c.path : c \in nestedClustersOf(doc)}

\* the entries of a diagnostics list that carry message
withMessage(diags, message) == SelectSeq(diags, LAMBDA d : d.message = message)

\* s is '#' followed by exactly n hexadecimal digits
isHashAndHexDigits(s, n) ==
  Len(s) = n + 1 /\ s[1] = "#" /\ \A i \in 2..Len(s) : s[i] \in HexDigits

\* C12: for a color-typed token whose value is a string starting with '#',
\* validate reports one 'Invalid hex color format' error, and no other
\* error, exactly when the rest of the string is not 3, 6 or 8 hexadecimal
\* digits; #RGB, #RRGGBB and #RRGGBBAA produce no error.
HexColorThreeSixEight ==
  \A s \in HexStrings :
    (op = "validate" /\ doc = TokenDoc(Typed(S(s), T("color")))) =>
      /\ ret.kind = "result"
      /\ IF \E n \in {3, 6, 8} : isHashAndHexDigits(s, n)
         THEN Len(ret.errors) = 0
         ELSE /\ Len(ret.errors) = 1
              /\ Len(withMessage(ret.errors, "Invalid hex color format")) = 1

\* C13: for a token with `$type` opacity, validate reports an opacity error
\* exactly when its `$value` is not a number or is a number below 0 or
\* above 1; a numeric `$value` in [0, 1], the ends 0 and 1 included, produces
\* no error.
OpacityWithinUnitInterval ==
  \A v \in OpacityValues :
    (op = "validate" /\ doc = TokenDoc(Typed(v, T("opacity")))) =>
      /\ ret.kind = "result"
      /\ IF v.t = "num" /\ 0 <= v.m /\ v.m <= 1000
         THEN Len(ret.errors) = 0
         ELSE Len(withMessage(ret.errors, "Opacity must be a number between 0 and 1")) = 1

\* C14: for every document D (a JSON object), validate(autoFix(D)) reports
\* zero errors.
AutoFixConformant == (op = "autoFix" /\ doc.t = "obj") => Conformant(ret.value)

\* C15: for a top-level value that is a number, a string, a boolean or
\* null, validate returns valid = false, exactly one error whose path is
\* '$', an empty warnings list and no structure issues.
NonObjectRejected ==
  (op = "validate" /\ doc.t \in {"num", "str", "bool", "null"}) =>
    /\ ret.kind = "result" /\ ~ret.valid
    /\ Len(ret.errors) = 1 /\ ret.errors[1].path = <<"$">>
    /\ ret.errors[1].severity = "error"
    /\ ret.warnings = <<>>
    /\ ret.structureIssues = <<>> /\ structureIssues = <<>>

\* validate of a number on an instance that held the warnings and the
\* structure issue of an earlier call
NonObjectRejectedWitness ==
  /\ op = "validate" /\ doc = DocNumber /\ ret.kind = "result"
  /\ Len(entry.warnings) > 0 /\ Len(entry.structureIssues) > 0
  /\ Len(ret.errors) = 1

\* C16: a token whose `$type` is a non-empty value outside the vocabulary
\* produces exactly one 'Unknown token type' warning, no error on account
\* of its type (its errors are those of the same token without `$type`),
\* and no per-type value validator adds a diagnostic for it.
UnknownTypeWarnsOnly ==
  \A t \in UnknownTypeTokens :
    (op = "validate" /\ doc = TokenDoc(t)) =>
      /\ ret.kind = "result"
      /\ Len(withMessage(ret.warnings, "Unknown token type")) = 1
      /\ withMessage(ret.warnings, "Unknown token type")[1].arg = Get(t, kDType)
      /\ ret.errors = validate(EmptyLists, TokenDoc(Del(t, kDType))).errors
      /\ validateTokenValue(EmptyLists, kColors, kPrimary, t) = EmptyLists

\* validate of a token of unknown type whose value no color validator
\* would accept: one warning for the type and no error
UnknownTypeWarnsOnlyWitness ==
  /\ op = "validate" /\ doc = TokenDoc(Typed(vHexZZZ, T("mystery")))
  /\ ret.kind = "result" /\ ret.errors = <<>>
  /\ Len(withMessage(ret.warnings, "Unknown token type")) = 1

\* s is one or more digits
allDigits(s) == Len(s) > 0 /\ \A i \in 1..Len(s) : s[i] \in Digits

\* <number>: digits, or digits, a point and digits
isNumeral(s) ==
  \/ allDigits(s)
  \/ \E k \in 2..(Len(s) - 1) :
       /\ s[k] = "."
       /\ allDigits(SubSeq(s, 1, k - 1))
       /\ allDigits(SubSeq(s, k + 1, Len(s)))

\* <number><unit> for a unit of units
numeralWithUnit(s, units) ==
  \E k \in 1..(Len(s) - 1) :
    isNumeral(SubSeq(s, 1, k)) /\ SubSeq(s, k + 1, Len(s)) \in units

\* the numeral s denotes a number of 1 or less: its integer digits are
\* zeros, or zeros and a final 1 with no fraction digit other than 0
numeralAtMostOne(s) ==
  LET points == {k \in 1..Len(s) : s[k] = "."}
      n == IF points = {} THEN Len(s) ELSE (CHOOSE k \in points : TRUE) - 1
  IN  \/ \A i \in 1..n : s[i] = "0"
      \/ /\ s[n] = "1"
         /\ \A i \in 1..(n - 1) : s[i] = "0"
         /\ \A i \in (n + 2)..Len(s) : s[i] = "0"

\* the type the rule gives to value; signed tells whether the duration form
\* admits a leading '-'
typeByRule(value, signed) ==
  IF value.t = "str"
  THEN LET s == value.s
           unsignedPart == IF signed /\ Len(s) > 0 /\ s[1] = "-" THEN Tail(s) ELSE s
       IN  IF Len(s) >= 1 /\ SubSeq(s, 1, 1) = <<"#">> THEN T("color")
           ELSE IF Len(s) >= 3 /\ SubSeq(s, 1, 3) = <<"r", "g", "b">> THEN T("color")
           ELSE IF numeralWithUnit(s, DimensionUnits) THEN T("dimension")
           ELSE IF numeralWithUnit(unsignedPart, DurationUnits) THEN T("duration")
           ELSE IF isNumeral(s)
           THEN (IF numeralAtMostOne(s) THEN T("opacity") ELSE T("number"))
           ELSE Null
  ELSE IF value.t = "num"
  THEN (IF value.m <= 1000 THEN T("opacity") ELSE T("number"))
  ELSE Null

\* C17: inferTokenType(value) returns color for a string starting with '#'
\* or 'rgb'; dimension for <number><unit> with a listed unit; duration for
\* <number>(ms|s); for a bare non-negative numeric string or any number,
\* opacity when it is 1 or less and number otherwise; null for every other
\* value (<number> being digits with an optional fraction).
InferByRule ==
  op = "inferTokenType" => ret.value = typeByRule(doc, FALSE)

\* C17 as amended: the same, where the duration form is an optional '-',
\* <number> and ms or s.
InferByRuleSignedDuration ==
  op = "inferTokenType" => ret.value = typeByRule(doc, TRUE)

\* inferTokenType of '-1s' returned duration
InferByRuleSignedDurationWitness ==
  /\ op = "inferTokenType" /\ doc = S(<<"-", "1", "s">>)
  /\ ret.value = T("duration")

\* the flattened names of the tokens below node: prefix-C for a child C that
\* looks like a token, and the names below a child that does not, with the
\* child's key joined to the prefix
RECURSIVE flattenedNames(_, _)
flattenedNames(node, prefix) ==
  UNION {LET key == node.kv[i][1]
             value == node.kv[i][2]
         IN  IF StartsWithDollar(key) \/ ~IsObj(value) THEN {}
             ELSE IF looksLikeToken(value) THEN {prefix \o <<"-">> \o key}
             ELSE flattenedNames(value, prefix \o <<"-">> \o key)
         : i \in 1..Len(node.kv)}

\* the keys of an object
keysOf(o) == {o.kv[i][1] : i \in 1..Len(o.kv)}

\* C18: for a nested cluster at key chain K1...Kn under group G, validate
\* produces exactly one NESTED_TOKENS issue with path $.G.K1...Kn and
\* autoFixable = true, whose flattenedStructure names each token child C
\* 'Kn-C' (deeper token descendants with every key between joined by
\* hyphens); for {"colors":{"brand":{"hover":{...}}}} that is one issue at
\* $.colors.brand with key brand-hover.
NestedIssueNames ==
  (op = "validate" /\ ret.kind = "result" /\ ret.hasStructureIssues) =>
    /\ \A c \in nestedClustersOf(doc) :
         LET found == SelectSeq(ret.structureIssues, LAMBDA x : x.path = c.path)
         IN  /\ Len(found) = 1
             /\ found[1].issue = "NESTED_TOKENS"
             /\ found[1].autoFixable
             /\ keysOf(found[1].flattenedStructure) = flattenedNames(c.node, c.key)
    /\ doc = DocNested =>
         /\ Len(ret.structureIssues) = 1
         /\ ret.structureIssues[1].path = <<"$", ".", "colors", ".", "brand">>
         /\ keysOf(ret.structureIssues[1].flattenedStructure) = {<<"brand", "-", "hover">>}

\* the warnings validate gives for the one token {"value": v} of a
\* document, beside any others: one for the legacy `value` key, and one for
\* the missing `$type`, naming the inferred type, when the inference yields
\* a type
legacyTokenWarnings(ws, v) ==
  LET legacy == withMessage(ws, "Legacy \"value\" key used; prefer \"$value\" per DTCG 2025.10")
      missing == withMessage(ws, "Missing $type - inferred as")
  IN  /\ Len(legacy) = 1
      /\ IF Truthy(inferTokenType(v))
         THEN Len(missing) = 1 /\ missing[1].arg = inferTokenType(v)
         ELSE Len(missing) = 0

\* C19: validate of {"colors":{"primary":{"value":"#E00069"}}} returns valid
\* = true, no errors, and exactly two warnings: the legacy `value` key
\* warning and 'Missing $type - inferred as "color"'.  In general a token
\* with legacy `value`, no `$value` and no `$type` yields one legacy-key
\* warning, one missing-type warning when inference succeeds, and no error.
LegacyTokenTwoWarnings ==
  \A v \in LegacyValues :
    (op = "validate" /\ doc = TokenDoc(Obj1(kValue, v))) =>
      /\ ret.kind = "result" /\ ret.valid /\ ret.errors = <<>>
      /\ legacyTokenWarnings(ret.warnings, v)
      /\ doc = DocLegacy =>
           /\ Len(ret.warnings) = 2
           /\ withMessage(ret.warnings, "Missing $type - inferred as")[1].arg = T("color")

\* C19 as amended: the warnings of the scenario are exactly three, the
\* missing-$schema warning and the two warnings of the token; the rest as
\* claimed.
LegacyTokenWarningsAndSchema ==
  \A v \in LegacyValues :
    (op = "validate" /\ doc = TokenDoc(Obj1(kValue, v))) =>
      /\ ret.kind = "result" /\ ret.valid /\ ret.errors = <<>>
      /\ legacyTokenWarnings(ret.warnings, v)
      /\ Len(withMessage(ret.warnings, "Missing $schema declaration")) = 1
      /\ Len(ret.warnings) = IF Truthy(inferTokenType(v)) THEN 3 ELSE 2
      /\ doc = DocLegacy =>
           /\ Len(ret.warnings) = 3
           /\ withMessage(ret.warnings, "Missing $type - inferred as")[1].arg = T("color")

\* validate of the scenario document returned valid = true with three
\* warnings
LegacyTokenWarningsAndSchemaWitness ==
  /\ op = "validate" /\ doc = DocLegacy
  /\ ret.kind = "result" /\ ret.valid /\ Len(ret.warnings) = 3

\* C20: validate({}) returns valid = false, an empty errors list, and a
\* warnings list of exactly one warning, the missing-$schema warning.
EmptyObjectInvalid ==
  (op = "validate" /\ doc = DocEmpty) =>
    /\ ret.kind = "result" /\ ~ret.valid
    /\ ret.errors = <<>>
    /\ Len(ret.warnings) = 1
    /\ ret.warnings[1].message = "Missing $schema declaration"

\* C20 as amended: validate({}) returns valid = true, an empty errors list,
\* and a warnings list of exactly one warning, the missing-$schema warning.
EmptyObjectValid ==
  (op = "validate" /\ doc = DocEmpty) =>
    /\ ret.kind = "result" /\ ret.valid
    /\ ret.errors = <<>>
    /\ Len(ret.warnings) = 1
    /\ ret.warnings[1].message = "Missing $schema declaration"
    /\ ret.structureIssues = <<>>

\* validate({}) on an instance that held the errors of an earlier call
EmptyObjectValidWitness ==
  /\ op = "validate" /\ doc = DocEmpty /\ ret.kind = "result"
  /\ Len(entry.errors) > 0
  /\ ret.valid /\ Len(ret.warnings) = 1

----------------------------------------------------------------------------
(* The token preview: how a normalized $value is displayed *)

DecimalChars == <<"0", "1", "2", "3", "4", "5", "6", "7", "8", "9">>
HexChars == DecimalChars \o <<"a", "b", "c", "d", "e", "f">>

\* the numerals of n >= 0 in the given base, most significant first
RECURSIVE IntToChars(_, _)
IntToChars(n, chars) ==
  IF n < Len(chars) THEN <<chars[n + 1]>>
  ELSE IntToChars(n \div Len(chars), chars) \o <<chars[(n % Len(chars)) + 1]>>

RECURSIVE Zeros(_)
Zeros(n) == IF n <= 0 THEN <<>> ELSE <<"0">> \o Zeros(n - 1)

\* s.padStart(2, '0')
padStart2(s) == Zeros(2 - Len(s)) \o s

\* Math.round(n * 255).toString(16).padStart(2, '0'), for a channel n
toHex(n) ==
  IF n.t # "num" THEN <<"N", "a", "N">>
  ELSE LET r == (510 * n.m + 1000) \div 2000
       IN  padStart2(IF r < 0 THEN <<"-">> \o IntToChars(0 - r, HexChars)
                     ELSE IntToChars(r, HexChars))

\* the three fraction digits of m thousandths, without the trailing zeros
fractionChars(m) ==
  LET all == Zeros(3 - Len(IntToChars(m, DecimalChars))) \o IntToChars(m, DecimalChars)
  IN  SubSeq(all, 1, SignificantEnd(all, 1, 4) - 1)

\* String(v) of a number v, as a template literal makes it: decimal
\* notation, and exponent notation below 1e-6
numberToString(v) ==
  IF v.t = "nan" THEN <<"N", "a", "N">>
  ELSE IF IsTiny(v)
  THEN LET ds == IntToChars(IF v.d < 0 THEN 0 - v.d ELSE v.d, DecimalChars)
           x == Len(ds) - 1 - v.e
       IN  (IF v.d < 0 THEN <<"-">> ELSE <<>>)
           \o (IF x >= 0 - 6
               THEN <<"0", ".">> \o Zeros(v.e - Len(ds)) \o ds
               ELSE <<Head(ds)>>
                    \o (IF Len(ds) > 1 THEN <<".">> \o Tail(ds) ELSE <<>>)
                    \o <<"e", "-">> \o IntToChars(0 - x, DecimalChars))
  ELSE LET mag == IF v.m < 0 THEN 0 - v.m ELSE v.m
       IN  (IF v.m < 0 THEN <<"-">> ELSE <<>>)
           \o IntToChars(mag \div 1000, DecimalChars)
           \o (IF mag % 1000 = 0 THEN <<>> ELSE <<".">> \o fractionChars(mag % 1000))

\* `${x}` of a value the preview interpolates
templateString(x) ==
  CASE x.t = "str" -> x.s
    [] x.t \in {"num", "nan"} -> numberToString(x)
    [] x.t = "undef" -> <<"u", "n", "d", "e", "f", "i", "n", "e", "d">>
    [] x.t = "null" -> <<"n", "u", "l", "l">>
    [] OTHER -> <<"[", "o", "b", "j", "e", "c", "t", "]">>

\* the preview displays val with a value of its own: a string, an sRGB
\* color object, or an object under a dimension type
hasOwnDisplay(val, type) ==
  \/ TypeofString(val)
  \/ /\ type = T("color") /\ IsObj(val)
     /\ Get(val, <<"colorSpace">>) = T("srgb") /\ IsObj(Get(val, <<"channels">>))
  \/ type \in {T("dimension"), T("spacing")} /\ IsObj(val)

\* valueDisplay of the token preview for $value val and $type type, where
\* hasOwnDisplay(val, type)
valueDisplay(val, type) ==
  IF TypeofString(val) THEN val
  ELSE IF type = T("color")
  THEN LET channels == Get(val, <<"channels">>)
       IN  S(<<"#">> \o toHex(Get(channels, <<"r">>)) \o toHex(Get(channels, <<"g">>))
             \o toHex(Get(channels, <<"b">>)))
  ELSE S(templateString(Get(val, kValue)) \o templateString(Get(val, <<"unit">>)))

----------------------------------------------------------------------------
(* The normalizer's conversions and the preview of their results: `doc`    *)
(* holds the string passed to convertToColorObject or parseDimension       *)

HexOf(b) == <<HexChars[(b \div 16) + 1], HexChars[(b % 16) + 1]>>
\* the six-digit hex color of three bytes
HexColor(rgb) == S(<<"#">> \o HexOf(rgb[1]) \o HexOf(rgb[2]) \o HexOf(rgb[3]))
\* the three-digit hex color of three digits 0..15
ShortColor(xyz) == S(<<"#", HexChars[xyz[1] + 1], HexChars[xyz[2] + 1], HexChars[xyz[3] + 1]>>)
\* every byte value occurs in every channel
ColorBytes == {<<b, (b + 85) % 256, 255 - b>> : b \in 0..255}
ShortDigits == {<<x, (x + 5) % 16, 15 - x>> : x \in 0..15}
OtherColors ==
  {S(<<"#", "A", "b", "C">>), S(<<"#", "1", "2", "3", "4", "5">>), S(<<"r", "e", "d">>),
   S(<<"#", "F", "F", "0", "0", "a", "A">>), S(<<"#", "1", "2", "3", "4">>)}

\* numerals and the numbers they denote
Numerals ==
  {<<<<"0">>, N(0)>>, <<<<"7">>, N(7000)>>, <<<<"1", "6">>, N(16000)>>,
   <<<<"1", "0", "0">>, N(100000)>>, <<<<"1", ".", "5">>, N(1500)>>,
   <<<<"0", ".", "5">>, N(500)>>, <<<<"0", ".", "2", "5">>, N(250)>>,
   <<<<"0", ".", "1", "2", "5">>, N(125)>>, <<<<"0", "0", "7">>, N(7000)>>,
   <<<<"1", ".", "5", "0">>, N(1500)>>, <<<<"0", ".", "0", "0", "1">>, N(1)>>,
   <<<<"0", ".", "0", "0", "0", "1">>, Tiny(1, 4)>>,
   <<<<"0", ".", "0", "0", "0", "0", "0", "1">>, Tiny(1, 6)>>,
   <<<<"0", ".", "0", "0", "0", "0", "0", "0", "1">>, Tiny(1, 7)>>,
   <<<<"0", ".", "0", "0", "0", "0", "0", "0", "1", "2">>, Tiny(12, 8)>>}
DimensionStrings == {S(n[1] \o u) : n \in Numerals, u \in DimensionUnits}
Unparseable ==
  {S(<<"a", "u", "t", "o">>), S(<<"1", "6">>), S(<<"p", "x">>), S(<<>>),
   S(<<"1", ".", "5", " ", "p", "x">>), S(<<"1", "6", "q">>)}
ConvertInputs ==
  {HexColor(rgb) : rgb \in ColorBytes} \cup {ShortColor(xyz) : xyz \in ShortDigits}
  \cup OtherColors \cup DimensionStrings \cup Unparseable

InitConvert ==
  /\ doc \in ConvertInputs
  /\ errors = <<>> /\ warnings = <<>> /\ structureIssues = <<>>
  /\ issuesOf = "other" /\ fixes = <<>>
  /\ op = "new" /\ ret = [kind |-> "none"] /\ entry = EmptyLists

ConvertToColorObject ==
  /\ op = "new"
  /\ op' = "convertToColorObject"
  /\ ret' = [kind |-> "value", type |-> T("color"), value |-> convertToColorObject(doc)]
  /\ UNCHANGED <<doc, errors, warnings, structureIssues, issuesOf, fixes, entry>>

ParseDimension ==
  /\ op = "new"
  /\ op' = "parseDimension"
  /\ ret' = [kind |-> "value", type |-> T("dimension"), value |-> parseDimension(doc)]
  /\ UNCHANGED <<doc, errors, warnings, structureIssues, issuesOf, fixes, entry>>

\* the preview of the token {$value: ret.value, $type: ret.type}
TokenPreview ==
  /\ ret.kind = "value" /\ hasOwnDisplay(ret.value, ret.type)
  /\ op' = "tokenPreview"
  /\ ret' = [kind |-> "display", type |-> ret.type, value |-> valueDisplay(ret.value, ret.type),
             from |-> ret.value]
  /\ UNCHANGED <<doc, errors, warnings, structureIssues, issuesOf, fixes, entry>>

NextConvert == ConvertToColorObject \/ ParseDimension \/ TokenPreview

SpecConvert == InitConvert /\ [][NextConvert]_vars

----------------------------------------------------------------------------
(* Properties of the conversions *)

abs(n) == IF n < 0 THEN 0 - n ELSE n
channelOf(color, c) == Get(Get(color, <<"channels">>), c)
\* channel m (in thousandths) is byte b rounded to three decimals, in [0, 1]
roundedChannel(v, b) ==
  v.t = "num" /\ ~IsTiny(v) /\ v.m \in 0..1000 /\ 2 * abs(1000 * b - 255 * v.m) <= 255
\* convertToColorObject gave the channels of bytes rgb, or the preview of them
\* shows the six digits hex
channelsOf(rgb, hex) ==
  /\ op = "convertToColorObject" =>
       /\ roundedChannel(channelOf(ret.value, <<"r">>), rgb[1])
       /\ roundedChannel(channelOf(ret.value, <<"g">>), rgb[2])
       /\ roundedChannel(channelOf(ret.value, <<"b">>), rgb[3])
  /\ (op = "tokenPreview" /\ ret.type = T("color")) => ret.value = hex

\* C21: for every hex color of 6 digits (and every one of 3 digits, each digit
\* doubled), convertToColorObject returns channels r, g, b that are the bytes
\* times 1000 / 255 rounded to thousandths, each in [0, 1], and the preview's
\* round(channel * 255) gives back the bytes, for all 256 byte values
ColorChannelsRoundTrip ==
  /\ \A rgb \in ColorBytes : doc = HexColor(rgb) => channelsOf(rgb, HexColor(rgb))
  /\ \A xyz \in ShortDigits :
       doc = ShortColor(xyz) =>
         channelsOf(<<17 * xyz[1], 17 * xyz[2], 17 * xyz[3]>>,
                    HexColor(<<17 * xyz[1], 17 * xyz[2], 17 * xyz[3]>>))

ColorChannelsRoundTripWitness ==
  /\ doc = HexColor(<<128, 213, 127>>)
  /\ op = "tokenPreview"
  /\ ret.value = doc
  /\ channelOf(ret.from, <<"r">>) = N(502)

dimensionOf(value, unit) == O(<<<<kValue, value>>, <<<<"unit">>, S(unit)>>>>)

\* C22: for every string <number><unit> with a listed unit, parseDimension
\* returns {value: that number, unit: that unit}, and the string made of the
\* value followed by the unit is one parseDimension maps to the same value and
\* unit; a string it cannot parse is returned unchanged
DimensionRoundTrip ==
  /\ \A n \in Numerals, u \in DimensionUnits :
       doc = S(n[1] \o u) =>
         /\ op = "parseDimension" => ret.value = dimensionOf(n[2], u)
         /\ (op = "tokenPreview" /\ ret.type = T("dimension")) =>
              parseDimension(ret.value) = ret.from
  /\ (doc \in Unparseable /\ op = "parseDimension") => ret.value = doc

----------------------------------------------------------------------------
(* Properties of token validation *)

\* the messages of the errors the validator of type reports for value
valueErrors(type, value) ==
  LET st == CASE type = T("number") -> validateNumberValue(EmptyLists, kColors, kPrimary, value)
              [] type = T("color") -> validateColorValue(EmptyLists, kColors, kPrimary, value)
              [] type = T("opacity") -> validateOpacityValue(EmptyLists, kColors, kPrimary, value)
              [] OTHER -> EmptyLists
  IN  {st.errors[i].message : i \in 1..Len(st.errors)}

\* the types the 'Missing $type' warnings of ws name
inferredTypes(ws) ==
  {ws[i].arg : i \in {j \in 1..Len(ws) : ws[j].message = "Missing $type - inferred as"}}

\* C23: for a token with a `$value` key, validate infers the type from that
\* `$value` and validates that `$value` against the `$type`, whatever it holds
\* (0, the empty string, false and null included); a legacy `value` beside
\* it is not consulted
DollarValueUsed ==
  \A t \in DollarValueTokens :
    (op = "validate" /\ doc = TokenDoc(t)) =>
      /\ ret.kind = "result"
      /\ IF Has(t, kDType)
         THEN {errors[i].message : i \in 1..Len(errors)}
                = valueErrors(Get(t, kDType), Get(t, kDValue))
         ELSE inferredTypes(warnings)
                = (IF Truthy(inferTokenType(Get(t, kDValue)))
                   THEN {inferTokenType(Get(t, kDValue))} ELSE {})

\* path p is q or continues q with a further key
startsWithPath(p, q) ==
  /\ Len(p) >= Len(q)
  /\ SubSeq(p, 1, Len(q)) = q
  /\ Len(p) > Len(q) => p[Len(q) + 1] = "."

\* the path of the one token below node (itself at path): the chain of keys
\* down through the nodes that have no value key and exactly one non-`$` key
RECURSIVE tokenChain(_, _)
tokenChain(node, path) ==
  IF IsObj(node) /\ ~hasValueKey(node) /\ Len(NonDollarKeys(node)) = 1
  THEN tokenChain(Get(node, NonDollarKeys(node)[1]), Dot(path, NonDollarKeys(node)[1]))
  ELSE path

\* C24: every error and warning of validate about a token at key chain
\* K1...Kn under the top-level group G has a path that starts with
\* $.G.K1...Kn, at every depth (here: for the documents with one group and one
\* chain of keys below it, whose errors and warnings, the missing-$schema
\* warning aside, are all about the token at the end of the chain)
DiagnosticsCarryFullPath ==
  (/\ op = "validate" /\ ret.kind = "result"
   /\ IsObj(doc) /\ Len(doc.kv) = 1 /\ Has(doc, kColors) /\ IsObj(Get(doc, kColors)))
  => \A i \in 1..(Len(errors) + Len(warnings)) :
       LET d == (errors \o warnings)[i]
       IN  d.message # "Missing $schema declaration" =>
             startsWithPath(d.path, tokenChain(Get(doc, kColors), Dot(<<"$">>, kColors)))

classificationMessages ==
  {"Token must be an object", "Token missing \"$value\" property",
   "Token missing \"$value\" property - has nested structure instead"}

\* the errors of es that classify a child, in order
classificationErrors(es) == SelectSeq(es, LAMBDA e : e.message \in classificationMessages)

plainKeys(node) == {i \in 1..Len(node.kv) : ~StartsWithDollar(node.kv[i][1])}

\* what the classification of the children of group (at path) lets expect:
\* the <<path, message>> of the errors, and the paths of the nodes validated
\* as tokens because of a value key
RECURSIVE classified(_, _)
classified(group, path) ==
  UNION {LET k == group.kv[i][1]
             c == group.kv[i][2]
         IN  IF ~IsObj(c) THEN {<<Dot(path, k), "Token must be an object">>}
             ELSE IF hasValueKey(c) THEN {<<Dot(path, k), "token">>}
             ELSE IF plainKeys(c) = {}
             THEN {<<Dot(path, k), "Token missing \"$value\" property">>}
             ELSE classified(c, Dot(path, k)) : i \in plainKeys(group)}

\* the errors es are those classified expects, one each, and the tokens with
\* a legacy `value` only were validated as tokens (they got their warning)
classifiedAs(es, ws, expected) ==
  /\ {<<e.path, e.message>> : e \in {classificationErrors(es)[i] : i \in 1..Len(classificationErrors(es))}}
       = {x \in expected : x[2] # "token"}
  /\ Len(classificationErrors(es)) = Cardinality({x \in expected : x[2] # "token"})
  /\ \A x \in expected :
       (x[2] = "token" /\ ~Has(ValueAt(doc, pathParts(x[1])), kDValue)) =>
         \E i \in 1..Len(ws) :
           /\ ws[i].path = Dot(x[1], kValue)
           /\ ws[i].message = "Legacy \"value\" key used; prefer \"$value\" per DTCG 2025.10"

validatedAsType(type, value) ==
  /\ ret.kind = "result"
  /\ inferredTypes(warnings) = {}
  /\ {errors[i].message : i \in 1..Len(errors)} = valueErrors(type, value)

\* C26: a token without a `$type` beneath a group with `$type` T is validated
\* as of type T (no 'Missing $type' warning, its value checked by T's
\* validator), and autoFix emits it with the `$type` of its nearest typed
\* ancestor group
GroupTypeInherited ==
  /\ \A c \in GroupTypedCases :
       doc = GroupTyped(c[1], c[2]) =>
         /\ op = "validate" => validatedAsType(c[1], c[2])
         /\ op = "autoFix" => Get(ValueAt(ret.value, <<kColors, kPrimary>>), kDType) = c[1]
  /\ doc = DocNearestType =>
       /\ op = "validate" => validatedAsType(T("number"), vTwo)
       /\ op = "autoFix" =>
            Get(ValueAt(ret.value, <<kColors, kBrand, kHover>>), kDType) = T("number")

\* the part of C26 about autoFix
GroupTypeInheritedByAutoFix ==
  /\ \A c \in GroupTypedCases :
       (doc = GroupTyped(c[1], c[2]) /\ op = "autoFix") =>
         Get(ValueAt(ret.value, <<kColors, kPrimary>>), kDType) = c[1]
  /\ (doc = DocNearestType /\ op = "autoFix") =>
       Get(ValueAt(ret.value, <<kColors, kBrand, kHover>>), kDType) = T("number")

----------------------------------------------------------------------------
(* Properties of the fixes *)

\* the list fs is the list getFixableIssues gives for the document right
\* after its validate, whatever the caller approved since
fixesOfValidated(fs) ==
  /\ issuesOf = "doc"
  /\ \E g \in {getFixableIssues(structureIssues, doc, TRUE)} :
       /\ g.kind # "throw"
       /\ Len(g.fixes) = Len(fs)
       /\ \A i \in 1..Len(fs) :
            [fs[i] EXCEPT !.approved = FALSE] = [g.fixes[i] EXCEPT !.approved = FALSE]

\* C27: for a document D with no errors and any approved fixes among those of
\* getFixableIssues(D) right after validate(D), the document that
\* applyApprovedFixes(D, fixes) returns has no errors either
FixesKeepConformance ==
  [][(/\ op' = "applyApprovedFixes" /\ ret'.kind = "document"
      /\ Conformant(doc) /\ fixesOfValidated(fixes))
     => Conformant(ret'.value)]_vars

\* the key paths of all nodes below node (itself at path)
RECURSIVE keyPaths(_, _)
keyPaths(node, path) ==
  IF ~IsObj(node) THEN {}
  ELSE UNION {{Append(path, node.kv[i][1])}
              \cup keyPaths(node.kv[i][2], Append(path, node.kv[i][1])) : i \in 1..Len(node.kv)}

isPrefixOf(p, q) == Len(p) <= Len(q) /\ SubSeq(q, 1, Len(p)) = p

\* a call of applyApprovedFixes with exactly one approved fix, of the given
\* type
oneApproved(type) ==
  /\ op' = "applyApprovedFixes" /\ ret'.kind = "document"
  /\ Len(approvedOnly(fixes)) = 1
  /\ approvedOnly(fixes)[1].type = type

\* C28: an approved flatten fix removes only the cluster's own key: every
\* other key of the document (those on the way to the cluster aside, whose
\* value holds the cluster) is still there afterwards, with its original
\* value, a sibling named like a flattened token included
FlattenKeepsOtherKeys ==
  [][(/\ oneApproved("flatten")
      /\ IsObj(ValueAt(doc, pathParts(approvedOnly(fixes)[1].path))))
     => \A p \in keyPaths(doc, <<>>) :
          (/\ ~isPrefixOf(p, pathParts(approvedOnly(fixes)[1].path))
           /\ ~isPrefixOf(pathParts(approvedOnly(fixes)[1].path), p))
          => StructEq(ValueAt(ret'.value, p), ValueAt(doc, p))]_vars

----------------------------------------------------------------------------
(* Properties of autoFix on tokens *)

\* the value of a node with a value key: `$value` first
ownValue(node) == IF Has(node, kDValue) THEN Get(node, kDValue) ELSE Get(node, kValue)

\* the nodes below node (itself at path) that carry `$value` or `value`, at
\* any depth, as <<path, value>>; the values themselves and the `$` metadata
\* are not searched
RECURSIVE tokenNodes(_, _)
tokenNodes(node, path) ==
  IF ~IsObj(node) THEN {}
  ELSE (IF hasValueKey(node) THEN {<<path, ownValue(node)>>} ELSE {})
       \cup UNION {IF StartsWithDollar(node.kv[i][1]) \/ node.kv[i][1] = kValue THEN {}
                   ELSE tokenNodes(node.kv[i][2], Append(path, node.kv[i][1])) :
                   i \in 1..Len(node.kv)}

\* the value v and its structured conversions
conversions(v) ==
  {v} \cup (IF TypeofString(v)
            THEN {convertToColorObject(v), parseDimension(v), parseFloat(v.s, 1)}
            ELSE {})

\* C29: autoFix drops no token: every node of the document with `$value` or
\* `value`, at any depth, is in autoFix's result as a token whose `$value` is
\* the original value or its structured conversion
AutoFixKeepsTokens ==
  (op = "autoFix" /\ IsObj(doc)) =>
    /\ \A n \in tokenNodes(doc, <<>>) :
         \E m \in tokenNodes(ret.value, <<>>) : m[2] \in conversions(n[2])
    /\ Cardinality(tokenNodes(ret.value, <<>>)) >= Cardinality(tokenNodes(doc, <<>>))

\* every key of parts is there in d, one below the other
resolves(d, parts) ==
  \A i \in 1..Len(parts) :
    /\ IsObj(ValueAt(d, SubSeq(parts, 1, i - 1)))
    /\ Has(ValueAt(d, SubSeq(parts, 1, i - 1)), parts[i])

\* C30: an approved fix whose path does not resolve in the document (a key
\* on the path is absent) changes nothing: applyApprovedFixes sets `$type` on,
\* and deletes, no other node, one with the same last key at a shallower level
\* included
UnresolvedFixChangesNothing ==
  [][(/\ op' = "applyApprovedFixes" /\ ret'.kind = "document"
      /\ Len(approvedOnly(fixes)) = 1
      /\ ~resolves(doc, pathParts(approvedOnly(fixes)[1].path)))
     => StructEq(ret'.value, doc)]_vars

====
